---- MODULE Spec2Model ----
(***************************************************************************)
(* Matcher engine v6 (src/unnamed/part_000): compileAll and findMatches.   *)
(*                                                                         *)
(* A text is a string of UTF-16 code units; the model keeps its length and *)
(* the positions of the lead units of its surrogate pairs.  The words of a *)
(* category are kept as what compileCategory makes of them: for each of    *)
(* the four buckets, whether any word fell into it and, if so, what the    *)
(* bucket's combined RegExp finds in each text: ends[t][p+1] is the end of *)
(* the match that starts at code unit p of text t, or -1.  A match of a    *)
(* /gu RegExp at a position does not depend on lastIndex, so this table    *)
(* determines every re.exec(text) call.                                    *)
(***************************************************************************)
EXTENDS Integers, Sequences, FiniteSets, TLC

VARIABLES texts, config, handles, scan, results, scansLeft, parallel, bg, page

vars == <<texts, config, handles, scan, results, scansLeft, parallel, bg, page>>

(***************************************************************************)
(* Bounds of the model.                                                    *)
(***************************************************************************)
SweepLen == 2
MaxPool == 3
IgnLen == 3
MaxIgnore == 3
IgnPool == 1
ScanLen == 2
CompileCats == 3
CompileLen == 2
CompilePool == 2
TwiceLen == 1
TwiceScans == 3
MaxRaw == 3
ParseTextLen == 2
CaseWordLen == 1
CaseTextLen == 2
BoundPat == 2
BoundLen == 3
PatLen == 3
TokLen == 3
PhrasePat == 4
PhraseLen == 4
ThrowLen == 2
ThrowPool == 2
V5Len == 3
V5Pool == 3
AddOps == 2
MaxSaves == 1
MenuItems == 1
MaxRefresh == 1

NoMatch == -1

\* Object.entries(buckets) order: sensitive_simple, sensitive_wild,
\* insensitive_simple, insensitive_wild.
BucketKeys == <<"sensitive_simple", "sensitive_wild", "insensitive_simple", "insensitive_wild">>

\* key.endsWith("_wild")
KeyIsWildcard(b) == BucketKeys[b] \in {"sensitive_wild", "insensitive_wild"}

(***************************************************************************)
(* compileCategory and compileAll.                                         *)
(***************************************************************************)
\* new RegExp(combined, flags): a fresh object, lastIndex 0.
NewRegExp(bucket, b) ==
  [ends |-> bucket.ends, isWildcard |-> KeyIsWildcard(b), lastIndex |-> 0]

\* for (const [key, items] of Object.entries(buckets)): a bucket with no
\* item is skipped, and so is (by the catch) one whose new RegExp throws.
RECURSIVE BucketRegexes(_, _)
BucketRegexes(buckets, b) ==
  IF b > Len(buckets) THEN <<>>
  ELSE (IF buckets[b].present /\ ~buckets[b].throws
        THEN <<NewRegExp(buckets[b], b)>> ELSE <<>>)
       \o BucketRegexes(buckets, b + 1)

\* One bucket whose new RegExp throws makes the whole category null.
CompileCategoryAllOrNothing(category) ==
  LET regexes == IF \E b \in DOMAIN category.buckets : category.buckets[b].throws
                 THEN <<>> ELSE BucketRegexes(category.buckets, 1)
  IN [isNull |-> regexes = <<>>, name |-> category.name, regexes |-> regexes]

\* isNull stands for the null that compileCategory returns when no bucket
\* produced a regex.
CompileCategory(category) ==
  LET regexes == BucketRegexes(category.buckets, 1)
  IN [isNull |-> regexes = <<>>, name |-> category.name, regexes |-> regexes]

CompileAllKeepingDisabled(cfg) ==
  LET RECURSIVE Cats(_)
      Cats(i) ==
        IF i > Len(cfg.categories) THEN <<>>
        ELSE LET compiled == CompileCategory(cfg.categories[i])
             IN (IF compiled.isNull THEN <<>> ELSE <<compiled>>) \o Cats(i + 1)
  IN [ignoreCompiled |-> CompileCategory([name |-> 0, buckets |-> cfg.ignoreList]),
      compiledCategories |-> Cats(1)]

CompileAll(cfg) ==
  LET RECURSIVE Cats(_)
      Cats(i) ==
        IF i > Len(cfg.categories) THEN <<>>
        ELSE IF cfg.categories[i].enabled = FALSE THEN Cats(i + 1)
        ELSE LET compiled == CompileCategory(cfg.categories[i])
             IN (IF compiled.isNull THEN <<>> ELSE <<compiled>>) \o Cats(i + 1)
  IN [ignoreCompiled |-> CompileCategory([name |-> 0, buckets |-> cfg.ignoreList]),
      compiledCategories |-> Cats(1)]

(***************************************************************************)
(* RegExp.prototype.exec for a /gu regex.                                  *)
(***************************************************************************)
\* In unicode mode a lastIndex that points at the trail unit of a surrogate
\* pair denotes the code point that starts one unit earlier.
CodePointStart(text, index) ==
  IF (index - 1) \in text.pairs THEN index - 1 ELSE index

\* The result of re.exec(text) with the given lastIndex: whether a match was
\* found, its span, and the lastIndex the call leaves in the regex.
RegExpExec(ends, text, lastIndex) ==
  LET from == CodePointStart(text, lastIndex)
      starts == {p \in from..text.len : ends[p + 1] # NoMatch}
  IN IF lastIndex > text.len \/ starts = {}
     THEN [found |-> FALSE, index |-> 0, end |-> 0, lastIndex |-> 0]
     ELSE LET p == CHOOSE q \in starts : \A r \in starts : q <= r
          IN [found |-> TRUE, index |-> p, end |-> ends[p + 1], lastIndex |-> ends[p + 1]]

(***************************************************************************)
(* pickBetterOverlap.                                                      *)
(***************************************************************************)
\* The earlier policy: category priority decides before specificity.
PickBetterPriorityFirst(a, b) ==
  IF a.priority # b.priority THEN (IF a.priority < b.priority THEN a ELSE b)
  ELSE IF a.isWildcard # b.isWildcard THEN (IF a.isWildcard THEN b ELSE a)
  ELSE IF (a.end - a.start) # (b.end - b.start)
       THEN (IF (a.end - a.start) > (b.end - b.start) THEN a ELSE b)
  ELSE IF a.start # b.start THEN (IF a.start < b.start THEN a ELSE b)
  ELSE IF a.end # b.end THEN (IF a.end < b.end THEN a ELSE b)
  ELSE a

\* The challenger always replaces the incumbent.
PickBetterAlwaysChallenger(a, b) == b

\* The incumbent always stays.
PickBetterIncumbent(a, b) == a

\* As pickBetterOverlap, with the shorter span winning rule 3.
PickBetterShorterWins(a, b) ==
  IF a.isWildcard # b.isWildcard THEN (IF a.isWildcard THEN b ELSE a)
  ELSE IF a.priority # b.priority THEN (IF a.priority < b.priority THEN a ELSE b)
  ELSE IF (a.end - a.start) # (b.end - b.start)
       THEN (IF (a.end - a.start) < (b.end - b.start) THEN a ELSE b)
  ELSE IF a.start # b.start THEN (IF a.start < b.start THEN a ELSE b)
  ELSE IF a.end # b.end THEN (IF a.end < b.end THEN a ELSE b)
  ELSE a

PickBetterOverlap(a, b) ==
  IF a.isWildcard # b.isWildcard THEN (IF a.isWildcard THEN b ELSE a)
  ELSE IF a.priority # b.priority THEN (IF a.priority < b.priority THEN a ELSE b)
  ELSE IF (a.end - a.start) # (b.end - b.start)
       THEN (IF (a.end - a.start) > (b.end - b.start) THEN a ELSE b)
  ELSE IF a.start # b.start THEN (IF a.start < b.start THEN a ELSE b)
  ELSE IF a.end # b.end THEN (IF a.end < b.end THEN a ELSE b)
  ELSE a

(***************************************************************************)
(* findMatches: the ignore filter and the two sorts.                       *)
(***************************************************************************)
\* ignoreRanges.sort((a, b) => a.start - b.start)
CompareIgnore(a, b) == a.start - b.start

\* Array.prototype.sort is stable: an element goes after every element that
\* compares lower and after the earlier elements that compare equal.
SortIgnoreRanges(ranges) ==
  LET Before(j, i) == \/ CompareIgnore(ranges[j], ranges[i]) < 0
                      \/ (CompareIgnore(ranges[j], ranges[i]) = 0 /\ j < i)
      Rank(i) == Cardinality({j \in 1..Len(ranges) : Before(j, i)}) + 1
  IN [r \in 1..Len(ranges) |-> ranges[CHOOSE i \in 1..Len(ranges) : Rank(i) = r]]

\* Binary search for the first ignore range whose end > match.start
\* (0-based lo and hi as in the source).
RECURSIVE BinarySearchLo(_, _, _, _)
BinarySearchLo(ranges, matchStart, lo, hi) ==
  IF lo > hi THEN lo
  ELSE LET mid == (lo + hi) \div 2
       IN IF ranges[mid + 1].end <= matchStart
          THEN BinarySearchLo(ranges, matchStart, mid + 1, hi)
          ELSE BinarySearchLo(ranges, matchStart, lo, mid - 1)

\* The loop from lo onward: FALSE when some range overlaps the match.
RECURSIVE KeptFrom(_, _, _)
KeptFrom(ranges, match, k) ==
  IF k >= Len(ranges) THEN TRUE
  ELSE LET ig == ranges[k + 1]
       IN IF ig.start >= match.end THEN TRUE
          ELSE IF match.start < ig.end /\ match.end > ig.start THEN FALSE
          ELSE KeptFrom(ranges, match, k + 1)

\* The filter callback.
IgnoreKeeps(ranges, match) ==
  KeptFrom(ranges, match, BinarySearchLo(ranges, match.start, 0, Len(ranges) - 1))

IgnoreFilter(allMatches, ranges) ==
  IF Len(ranges) > 0
  THEN SelectSeq(allMatches, LAMBDA m : IgnoreKeeps(ranges, m))
  ELSE allMatches

\* start, then priority, then longer first.
CompareMatchesPriorityFirst(a, b) ==
  IF a.start # b.start THEN a.start - b.start
  ELSE IF a.priority # b.priority THEN a.priority - b.priority
  ELSE (b.end - b.start) - (a.end - a.start)

\* The comparator of filtered.sort: start, then longer first, then priority.
CompareMatches(a, b) ==
  IF a.start # b.start THEN a.start - b.start
  ELSE IF (a.end - a.start) # (b.end - b.start)
       THEN (b.end - b.start) - (a.end - a.start)
  ELSE a.priority - b.priority

SortMatchesOmitted(filtered) == filtered

\* The candidates in the reverse of the order they were pooled in.
SortMatchesReversingPool(filtered) ==
  [r \in 1..Len(filtered) |-> filtered[Len(filtered) + 1 - r]]

SortMatches(filtered) ==
  LET Before(j, i) == \/ CompareMatches(filtered[j], filtered[i]) < 0
                      \/ (CompareMatches(filtered[j], filtered[i]) = 0 /\ j < i)
      Rank(i) == Cardinality({j \in 1..Len(filtered) : Before(j, i)}) + 1
  IN [r \in 1..Len(filtered) |-> filtered[CHOOSE i \in 1..Len(filtered) : Rank(i) = r]]

\* (m.start < winner.end) && (m.end > winner.start)
Overlaps(m, w) == m.start < w.end /\ m.end > w.start

\* One turn of for (const m of filtered): the winner and the final list it
\* leaves; winner is <<>> for null.
SweepTurn(winner, final, m) ==
  IF winner = <<>> THEN [winner |-> <<m>>, final |-> final]
  ELSE IF ~Overlaps(m, winner[1])
       THEN [winner |-> <<m>>, final |-> Append(final, winner[1])]
  ELSE [winner |-> <<PickBetterOverlap(winner[1], m)>>, final |-> final]

\* final.map(m => ({start, end, categoryName, color, fColor})); color and
\* fColor are copied from the same category as the name.
OutputOf(final) ==
  [i \in 1..Len(final) |->
     [start |-> final[i].start, end |-> final[i].end, categoryName |-> final[i].name]]

(***************************************************************************)
(* The compiled handle and the state of one findMatches call.              *)
(***************************************************************************)
Uncompiled ==
  [compiled |-> FALSE,
   ignoreCompiled |-> [isNull |-> TRUE, name |-> 0, regexes |-> <<>>],
   compiledCategories |-> <<>>]

\* The regexes findMatches visits, in the order of its loops: those of
\* ignoreCompiled (if not null), then those of compiledCategories[i] for
\* i = 0, 1, ...; i is kept 0-based as in the source.
WorkList(handle) ==
  LET ign == IF handle.ignoreCompiled.isNull THEN <<>>
             ELSE [j \in 1..Len(handle.ignoreCompiled.regexes) |->
                     [ignore |-> TRUE, i |-> 0, j |-> j]]
      RECURSIVE CatItems(_)
      CatItems(c) ==
        IF c > Len(handle.compiledCategories) THEN <<>>
        ELSE [j \in 1..Len(handle.compiledCategories[c].regexes) |->
                [ignore |-> FALSE, i |-> c - 1, j |-> j]] \o CatItems(c + 1)
  IN ign \o CatItems(1)

RegexAt(handle, item) ==
  IF item.ignore THEN handle.ignoreCompiled.regexes[item.j]
  ELSE handle.compiledCategories[item.i + 1].regexes[item.j]

\* re.lastIndex = v on the RegExp object the handle holds.
WithLastIndex(handle, item, v) ==
  IF item.ignore
  THEN [handle EXCEPT !.ignoreCompiled.regexes[item.j].lastIndex = v]
  ELSE [handle EXCEPT !.compiledCategories[item.i + 1].regexes[item.j].lastIndex = v]

IdleScan ==
  [pc |-> "idle", t |-> 1, h |-> 1, work |-> <<>>, n |-> 1, entered |-> FALSE,
   ignoreRanges |-> <<>>, allMatches |-> <<>>, filtered |-> <<>>,
   k |-> 1, winner |-> <<>>, final |-> <<>>, result |-> <<>>]

\* The candidate list is not allocated afresh: it still holds what the
\* previous call pushed.
BeginScanKeepingCandidates(prev, t, h) ==
  LET work == WorkList(handles[h])
  IN [pc |-> IF work = <<>> THEN "filter" ELSE "scan",
      t |-> t, h |-> h, work |-> work, n |-> 1, entered |-> FALSE,
      ignoreRanges |-> <<>>, allMatches |-> prev.allMatches, filtered |-> <<>>,
      k |-> 1, winner |-> <<>>, final |-> <<>>, result |-> <<>>]

\* The locals of a findMatches(text, compiled) call at its entry; prev is
\* what the previous call left behind, of which nothing is kept.
BeginScan(prev, t, h) ==
  LET work == WorkList(handles[h])
  IN [pc |-> IF work = <<>> THEN "filter" ELSE "scan",
      t |-> t, h |-> h, work |-> work, n |-> 1, entered |-> FALSE,
      ignoreRanges |-> <<>>, allMatches |-> <<>>, filtered |-> <<>>,
      k |-> 1, winner |-> <<>>, final |-> <<>>, result |-> <<>>]

Running(s) == scan[s].pc \notin {"idle", "done"}

(***************************************************************************)
(* Actions.                                                                *)
(***************************************************************************)
\* compileAll(config) into handle h.
CompileAllStep(h) ==
  /\ ~handles[h].compiled
  /\ handles' = [handles EXCEPT ![h] =
                   [compiled |-> TRUE,
                    ignoreCompiled |-> CompileAll(config).ignoreCompiled,
                    compiledCategories |-> CompileAll(config).compiledCategories]]
  /\ UNCHANGED <<bg, page, texts, config, scan, results, scansLeft, parallel>>

\* The host calls findMatches(texts[t], handles[h]).  JavaScript runs a call
\* to completion; a host with true parallelism may start a call while
\* another one is running.
StartScan(s, t, h) ==
  /\ scansLeft > 0
  /\ handles[h].compiled
  /\ ~Running(s)
  /\ parallel \/ \A o \in DOMAIN scan : ~Running(o)
  /\ scan' = [scan EXCEPT ![s] = BeginScan(scan[s], t, h)]
  /\ scansLeft' = scansLeft - 1
  /\ UNCHANGED <<bg, page, texts, config, handles, results, parallel>>

\* const re = rx.re; re.lastIndex = 0;
ResetRegex(s) ==
  LET sc == scan[s]
  IN /\ sc.pc = "scan"
     /\ ~sc.entered
     /\ handles' = [handles EXCEPT ![sc.h] = WithLastIndex(@, sc.work[sc.n], 0)]
     /\ scan' = [scan EXCEPT ![s].entered = TRUE]
     /\ UNCHANGED <<bg, page, texts, config, results, scansLeft, parallel>>

\* Priority counted from the end of compiledCategories.
CandidateReversedPriority(m, handle, item) ==
  [start |-> m.index, end |-> m.end,
   name |-> handle.compiledCategories[item.i + 1].name,
   priority |-> Len(handle.compiledCategories) - 1 - item.i,
   isWildcard |-> RegexAt(handle, item).isWildcard]

\* The candidate pushed for a match m of regex rx of category i.
Candidate(m, handle, item) ==
  [start |-> m.index, end |-> m.end,
   name |-> handle.compiledCategories[item.i + 1].name,
   priority |-> item.i,
   isWildcard |-> RegexAt(handle, item).isWildcard]

\* What one turn of the while loop does with a successful exec: the list it
\* pushes to (empty when the occurrence is zero-length) and the lastIndex
\* it leaves.
LoopBodyKeepingEmpty(m, pushed) ==
  IF m.end - m.index = 0
  THEN [push |-> <<pushed>>, lastIndex |-> m.lastIndex + 1]
  ELSE [push |-> <<pushed>>, lastIndex |-> m.lastIndex]

LoopBody(m, pushed) ==
  IF m.end - m.index = 0
  THEN [push |-> <<>>, lastIndex |-> m.lastIndex + 1]
  ELSE [push |-> <<pushed>>, lastIndex |-> m.lastIndex]

\* The object the loop body pushes for a match m: a range for the ignore
\* list, a candidate for a category.
Pushed(m, handle, item) ==
  IF item.ignore THEN [start |-> m.index, end |-> m.end]
  ELSE Candidate(m, handle, item)

\* One evaluation of the while condition (m = re.exec(text)) !== null and,
\* when it holds, of the loop body; when it fails the for loop moves to
\* the next regex, and past the last ignore regex the ranges are sorted.
ExecStep(s) ==
  LET sc == scan[s]
      item == sc.work[sc.n]
      handle == handles[sc.h]
      re == RegexAt(handle, item)
      m == RegExpExec(re.ends[sc.t], texts[sc.t], re.lastIndex)
      body == LoopBody(m, Pushed(m, handle, item))
      lastIgnore == item.ignore /\ (sc.n = Len(sc.work) \/ ~sc.work[sc.n + 1].ignore)
  IN /\ sc.pc = "scan"
     /\ sc.entered
     /\ IF m.found
        THEN /\ handles' = [handles EXCEPT ![sc.h] = WithLastIndex(@, item, body.lastIndex)]
             /\ scan' = [scan EXCEPT
                  ![s].ignoreRanges = IF item.ignore THEN @ \o body.push ELSE @,
                  ![s].allMatches = IF item.ignore THEN @ ELSE @ \o body.push]
        ELSE /\ handles' = [handles EXCEPT ![sc.h] = WithLastIndex(@, item, m.lastIndex)]
             /\ scan' = [scan EXCEPT
                  ![s].n = @ + 1,
                  ![s].entered = FALSE,
                  ![s].ignoreRanges = IF lastIgnore THEN SortIgnoreRanges(@) ELSE @,
                  ![s].pc = IF sc.n = Len(sc.work) THEN "filter" ELSE "scan"]
     /\ UNCHANGED <<bg, page, texts, config, results, scansLeft, parallel>>

\* The ignore filter and the early return: if (filtered.length === 0) return [].
FilterStep(s) ==
  LET sc == scan[s]
      filtered == IgnoreFilter(sc.allMatches, sc.ignoreRanges)
  IN /\ sc.pc = "filter"
     /\ IF filtered = <<>>
        THEN /\ scan' = [scan EXCEPT ![s].filtered = filtered, ![s].pc = "done",
                                     ![s].result = <<>>]
             /\ results' = [results EXCEPT ![sc.h][sc.t] = << <<>> >>]
        ELSE /\ scan' = [scan EXCEPT ![s].filtered = filtered, ![s].pc = "sort"]
             /\ UNCHANGED results
     /\ UNCHANGED <<bg, page, texts, config, handles, scansLeft, parallel>>

\* filtered.sort(...); const final = []; let winner = null;
SortStep(s) ==
  LET sc == scan[s]
  IN /\ sc.pc = "sort"
     /\ scan' = [scan EXCEPT ![s].filtered = SortMatches(@), ![s].pc = "sweep",
                             ![s].k = 1, ![s].winner = <<>>, ![s].final = <<>>]
     /\ UNCHANGED <<bg, page, texts, config, handles, results, scansLeft, parallel>>

\* One turn of for (const m of filtered).
SweepStep(s) ==
  LET sc == scan[s]
      m == sc.filtered[sc.k]
  IN /\ sc.pc = "sweep"
     /\ sc.k <= Len(sc.filtered)
     /\ scan' = [scan EXCEPT
          ![s].k = @ + 1,
          ![s].winner = SweepTurn(sc.winner, sc.final, m).winner,
          ![s].final = SweepTurn(sc.winner, sc.final, m).final]
     /\ UNCHANGED <<bg, page, texts, config, handles, results, scansLeft, parallel>>

\* if (winner) final.push(winner); return final.map(...)
ReturnStep(s) ==
  LET sc == scan[s]
      final == IF sc.winner # <<>> THEN Append(sc.final, sc.winner[1]) ELSE sc.final
  IN /\ sc.pc = "sweep"
     /\ sc.k > Len(sc.filtered)
     /\ scan' = [scan EXCEPT ![s].final = final, ![s].result = OutputOf(final),
                             ![s].pc = "done"]
     /\ results' = [results EXCEPT ![sc.h][sc.t] = <<OutputOf(final)>>]
     /\ UNCHANGED <<bg, page, texts, config, handles, scansLeft, parallel>>

Next ==
  \/ \E h \in DOMAIN handles : CompileAllStep(h)
  \/ \E s \in DOMAIN scan, t \in DOMAIN texts, h \in DOMAIN handles : StartScan(s, t, h)
  \/ \E s \in DOMAIN scan : ResetRegex(s)
  \/ \E s \in DOMAIN scan : ExecStep(s)
  \/ \E s \in DOMAIN scan : FilterStep(s)
  \/ \E s \in DOMAIN scan : SortStep(s)
  \/ \E s \in DOMAIN scan : SweepStep(s)
  \/ \E s \in DOMAIN scan : ReturnStep(s)

(***************************************************************************)
(* findMatches(texts[t], handle) run from entry to return with nothing     *)
(* else running, as a function of the handle and the text.                 *)
(***************************************************************************)
\* The while loop over one regex from lastIndex on: what it pushes.
RECURSIVE ExecAll(_, _, _, _)
ExecAll(handle, item, t, lastIndex) ==
  LET m == RegExpExec(RegexAt(handle, item).ends[t], texts[t], lastIndex)
      body == LoopBody(m, Pushed(m, handle, item))
  IN IF ~m.found THEN <<>>
     ELSE body.push \o ExecAll(handle, item, t, body.lastIndex)

\* The for loops over the regexes of the ignore list (ignore = TRUE) or of
\* the categories (ignore = FALSE), from work item n on.
RECURSIVE ScanAll(_, _, _, _)
ScanAll(handle, t, n, ignore) ==
  LET work == WorkList(handle)
  IN IF n > Len(work) THEN <<>>
     ELSE (IF work[n].ignore = ignore THEN ExecAll(handle, work[n], t, 0) ELSE <<>>)
          \o ScanAll(handle, t, n + 1, ignore)

\* for (const m of filtered) {...}; if (winner) final.push(winner);
RECURSIVE SweepAll(_, _, _, _)
SweepAll(filtered, k, winner, final) ==
  IF k > Len(filtered)
  THEN (IF winner # <<>> THEN Append(final, winner[1]) ELSE final)
  ELSE SweepAll(filtered, k + 1, SweepTurn(winner, final, filtered[k]).winner,
                SweepTurn(winner, final, filtered[k]).final)

FindMatchesAlone(handle, t) ==
  LET ignoreRanges == SortIgnoreRanges(ScanAll(handle, t, 1, TRUE))
      allMatches == ScanAll(handle, t, 1, FALSE)
      filtered == IgnoreFilter(allMatches, ignoreRanges)
  IN IF filtered = <<>> THEN <<>>
     ELSE OutputOf(SweepAll(SortMatches(filtered), 1, <<>>, <<>>))

(***************************************************************************)
(* Inputs: texts and configs.                                              *)
(***************************************************************************)
PlainText(len) == [len |-> len, pairs |-> {}]

\* What a regex can find in one left-to-right pass over a text: occurrences
\* that do not overlap.
HitSets(len) ==
  {S \in SUBSET {sp \in (0..len) \X (0..len) : sp[1] < sp[2]} :
     \A a, b \in S : a # b => (a[2] <= b[1] \/ b[2] <= a[1])}

EndsOf(H, len) ==
  [q \in 1..(len + 1) |->
     IF \E sp \in H : sp[1] = q - 1 THEN (CHOOSE sp \in H : sp[1] = q - 1)[2] ELSE NoMatch]

AbsentBucket == [present |-> FALSE, throws |-> FALSE, ends |-> <<>>]

NoBuckets == [b \in 1..4 |-> AbsentBucket]

\* Sequences of n hit sets with at most budget hits in all.
RECURSIVE HitTables(_, _, _)
HitTables(n, budget, len) ==
  IF n = 0 THEN {<<>>}
  ELSE UNION {{<<H>> \o rest : rest \in HitTables(n - 1, budget - Cardinality(H), len)} :
               H \in {S \in HitSets(len) : Cardinality(S) <= budget}}

\* The bucket table of a word list whose bucket slots[k] finds hits[k] in
\* the one text of length len, and whose other buckets hold no word.
BucketsFor(hits, slots, len) ==
  [b \in 1..4 |->
     IF \E k \in 1..Len(slots) : slots[k] = b /\ hits[k] # {}
     THEN [present |-> TRUE, throws |-> FALSE,
           ends |-> <<EndsOf(hits[CHOOSE k \in 1..Len(slots) : slots[k] = b], len)>>]
     ELSE AbsentBucket]

\* The background worker and the content script are not loaded.
InitWith(txts, cfgs, nHandles, nSlots, nScans, par) ==
  /\ texts = txts
  /\ bg = [loaded |-> FALSE]
  /\ page = [loaded |-> FALSE]
  /\ config \in cfgs
  /\ handles = [h \in 1..nHandles |-> Uncompiled]
  /\ scan = [s \in 1..nSlots |-> IdleScan]
  /\ results = [h \in 1..nHandles |-> [t \in 1..Len(txts) |-> <<>>]]
  /\ scansLeft = nScans
  /\ parallel = par

(***************************************************************************)
(* Spec: one scan of a text of SweepLen code units by two enabled          *)
(* categories and no ignore list; each category holds words in up to three *)
(* buckets (sensitive_simple, insensitive_simple, insensitive_wild), and   *)
(* the regexes find at most MaxPool occurrences in all.                    *)
(***************************************************************************)
SweepConfigs(len) ==
  {[ignoreList |-> NoBuckets,
    categories |-> [c \in 1..2 |->
       [name |-> c, enabled |-> TRUE,
        buckets |-> BucketsFor(SubSeq(tab, 3 * c - 2, 3 * c), <<1, 3, 4>>, len)]]] :
   tab \in HitTables(6, MaxPool, len)}

Init == InitWith(<<PlainText(SweepLen)>>, SweepConfigs(SweepLen), 1, 1, 1, FALSE)

Spec == Init /\ [][Next]_vars

(***************************************************************************)
(* SpecIgnore: one scan of a text of IgnLen code units; the four buckets   *)
(* of the ignore list find at most MaxIgnore ranges in all, and one        *)
(* category with one bucket finds at most IgnPool occurrences.             *)
(***************************************************************************)
IgnoreConfigs(len) ==
  {[ignoreList |-> BucketsFor(ign, <<1, 2, 3, 4>>, len),
    categories |-> <<[name |-> 1, enabled |-> TRUE,
                      buckets |-> BucketsFor(cat, <<3>>, len)]>>] :
   ign \in HitTables(4, MaxIgnore, len), cat \in HitTables(1, IgnPool, len)}

InitIgnore == InitWith(<<PlainText(IgnLen)>>, IgnoreConfigs(IgnLen), 1, 1, 1, FALSE)

SpecIgnore == InitIgnore /\ [][Next]_vars

(***************************************************************************)
(* SpecScan: one scan of a text of up to ScanLen code units, which may     *)
(* hold surrogate pairs, by a config with no or one ignore regex and no or *)
(* one category regex; a regex may find anything a /u regex can find,      *)
(* zero-length occurrences included.                                       *)
(***************************************************************************)
\* pairs holds the index of the lead unit of each surrogate pair.
ScanTexts ==
  {tx \in {[len |-> n, pairs |-> P] : n \in 0..ScanLen, P \in SUBSET (0..(ScanLen - 2))} :
     \A p \in tx.pairs : p + 1 < tx.len /\ (p + 1) \notin tx.pairs}

\* A /u regex matches between code points only.
Behaviours(tx) ==
  {f \in [1..(tx.len + 1) -> {NoMatch} \cup (0..tx.len)] :
     \A q \in 1..(tx.len + 1) :
       f[q] # NoMatch => /\ f[q] >= q - 1
                         /\ (q - 2) \notin tx.pairs
                         /\ (f[q] - 1) \notin tx.pairs}

OneBucket(b, ends) ==
  [k \in 1..4 |-> IF k = b THEN [present |-> TRUE, throws |-> FALSE, ends |-> ends]
                  ELSE AbsentBucket]

ScanConfigs(tx) ==
  {[ignoreList |-> ig, categories |-> cs] :
     ig \in {NoBuckets} \cup {OneBucket(4, <<f>>) : f \in Behaviours(tx)},
     cs \in {<<>>} \cup {<<[name |-> 1, enabled |-> TRUE, buckets |-> OneBucket(4, <<f>>)]>> :
                          f \in Behaviours(tx)}}

InitScan == \E tx \in ScanTexts : InitWith(<<tx>>, ScanConfigs(tx), 1, 1, 1, FALSE)

SpecScan == InitScan /\ [][Next]_vars

(***************************************************************************)
(* SpecCompile: one scan of a text of CompileLen code units by CompileCats *)
(* categories, each enabled or not and each with words in the              *)
(* insensitive_simple bucket or with no word at all; the regexes find at   *)
(* most CompilePool occurrences in all.                                    *)
(***************************************************************************)
CompileConfigs(len) ==
  {[ignoreList |-> NoBuckets,
    categories |-> [c \in 1..CompileCats |->
       [name |-> c, enabled |-> on[c],
        buckets |-> BucketsFor(<<tab[c]>>, <<3>>, len)]]] :
   on \in [1..CompileCats -> BOOLEAN], tab \in HitTables(CompileCats, CompilePool, len)}

InitCompile == InitWith(<<PlainText(CompileLen)>>, CompileConfigs(CompileLen), 1, 1, 1, FALSE)

SpecCompile == InitCompile /\ [][Next]_vars

(***************************************************************************)
(* SpecShared: two findMatches calls on one handle whose steps interleave, *)
(* on a text of SweepLen code units and one category with one regex.       *)
(***************************************************************************)
SharedConfigs(len) ==
  {[ignoreList |-> NoBuckets,
    categories |-> <<[name |-> 1, enabled |-> TRUE,
                      buckets |-> BucketsFor(tab, <<3>>, len)]>>] :
   tab \in HitTables(1, MaxPool, len)}

InitShared == InitWith(<<PlainText(SweepLen)>>, SharedConfigs(SweepLen), 1, 2, 2, TRUE)

SpecShared == InitShared /\ [][Next]_vars

(***************************************************************************)
(* SpecTwice: compileAll applied twice to one config, and TwiceScans calls *)
(* of findMatches, one after the other, each on either handle and on       *)
(* either of two texts of TwiceLen code units.                             *)
(***************************************************************************)
TwiceConfigs(len) ==
  {[ignoreList |-> NoBuckets,
    categories |-> <<[name |-> 1, enabled |-> TRUE,
                      buckets |-> OneBucket(3, <<EndsOf(H1, len), EndsOf(H2, len)>>)]>>] :
   H1 \in HitSets(len), H2 \in HitSets(len)}

InitTwice ==
  InitWith(<<PlainText(TwiceLen), PlainText(TwiceLen)>>, TwiceConfigs(TwiceLen), 2, 1, TwiceScans, FALSE)

SpecTwice == InitTwice /\ [][Next]_vars

(***************************************************************************)
(* Matcher engine v5 (src/tools/matcher.js): the resolution part of        *)
(* findMatches, as a function of the pooled candidates and ignore ranges.  *)
(***************************************************************************)
V5Filter(allMatches, ranges) ==
  IF Len(ranges) > 0
  THEN SelectSeq(allMatches, LAMBDA m :
         ~\E k \in 1..Len(ranges) : m.start < ranges[k].end /\ m.end > ranges[k].start)
  ELSE allMatches

\* On equal start the candidate of the later category sorts first.
V5CompareLaterFirst(a, b) ==
  IF a.start # b.start THEN a.start - b.start ELSE b.priority - a.priority

V5Compare(a, b) ==
  IF a.start # b.start THEN a.start - b.start ELSE a.priority - b.priority

RECURSIVE V5GreedySweep(_, _, _)
V5GreedySweep(sorted, k, lastEnd) ==
  IF k > Len(sorted) THEN <<>>
  ELSE IF sorted[k].start >= lastEnd
       THEN <<sorted[k]>> \o V5GreedySweep(sorted, k + 1, sorted[k].end)
       ELSE V5GreedySweep(sorted, k + 1, lastEnd)

V5Sort(filtered) ==
  LET Before(j, i) == \/ V5Compare(filtered[j], filtered[i]) < 0
                      \/ (V5Compare(filtered[j], filtered[i]) = 0 /\ j < i)
      Rank(i) == Cardinality({j \in 1..Len(filtered) : Before(j, i)}) + 1
  IN [r \in 1..Len(filtered) |-> filtered[CHOOSE i \in 1..Len(filtered) : Rank(i) = r]]

V5Resolve(allMatches, ranges) ==
  OutputOf(V5GreedySweep(V5Sort(V5Filter(allMatches, ranges)), 1, -1))

(***************************************************************************)
(* Properties of the resolver.                                             *)
(***************************************************************************)
Done(s) == scan[s].pc = "done"

SortedNoOverlap(out) ==
  /\ \A i \in 1..(Len(out) - 1) :
       out[i].start <= out[i + 1].start /\ out[i].end <= out[i + 1].start
  /\ \A i, j \in 1..Len(out) :
       i # j => ~(out[i].start < out[j].end /\ out[j].start < out[i].end)

\* The output record of candidate c is in out.
InOutput(c, out) ==
  \E i \in 1..Len(out) : out[i] = [start |-> c.start, end |-> c.end, categoryName |-> c.name]

\* C1: the list findMatches returns is sorted ascending by start, each match
\* ends no later than the next one starts, and no two returned matches
\* overlap; the same holds of what the v5 resolution returns for the pool.
C1_NoOverlap ==
  \A s \in DOMAIN scan :
    Done(s) => /\ SortedNoOverlap(scan[s].result)
               /\ SortedNoOverlap(V5Resolve(scan[s].allMatches, scan[s].ignoreRanges))

C1_Witness ==
  \E s \in DOMAIN scan :
    /\ Done(s)
    /\ Len(scan[s].result) >= 2
    /\ Len(scan[s].filtered) > Len(scan[s].result)
    /\ \E i, j \in 1..Len(scan[s].filtered) :
         i # j /\ Overlaps(scan[s].filtered[i], scan[s].filtered[j])

\* C2: a category candidate that shares a character position with an ignore
\* range never appears in the output of findMatches.
C2_IgnorePrecedence ==
  \A s \in DOMAIN scan :
    Done(s) =>
      \A i \in 1..Len(scan[s].allMatches), k \in 1..Len(scan[s].ignoreRanges) :
        LET c == scan[s].allMatches[i]
            ig == scan[s].ignoreRanges[k]
        IN (c.start < ig.end /\ c.end > ig.start) => ~InOutput(c, scan[s].result)

\* A wildcard candidate of a higher-priority category and a non-wildcard
\* candidate of a lower-priority category that overlap each other and that
\* no other surviving candidate overlaps.
IsolatedSpecificityPair(f, w, n) ==
  /\ f[w].isWildcard /\ ~f[n].isWildcard
  /\ f[w].priority < f[n].priority
  /\ Overlaps(f[w], f[n])
  /\ \A o \in 1..Len(f) :
       o \notin {w, n} => ~Overlaps(f[o], f[w]) /\ ~Overlaps(f[o], f[n])

\* C3: of such a pair the output contains the non-wildcard match and not the
\* wildcard one.
C3_Specificity ==
  \A s \in DOMAIN scan :
    Done(s) =>
      \A w, n \in 1..Len(scan[s].filtered) :
        IsolatedSpecificityPair(scan[s].filtered, w, n) =>
          /\ InOutput(scan[s].filtered[n], scan[s].result)
          /\ ~InOutput(scan[s].filtered[w], scan[s].result)

C3_Witness ==
  \E s \in DOMAIN scan :
    /\ Done(s)
    /\ \E w, n \in 1..Len(scan[s].filtered) :
         /\ IsolatedSpecificityPair(scan[s].filtered, w, n)
         /\ scan[s].filtered[w].end - scan[s].filtered[w].start
              > scan[s].filtered[n].end - scan[s].filtered[n].start
    /\ Len(scan[s].result) >= 1

\* C4 as claimed: no surviving candidate that is absent from the output
\* could still be added to it without creating an overlap.
C4_Maximal ==
  \A s \in DOMAIN scan :
    Done(s) =>
      \A i \in 1..Len(scan[s].filtered) :
        LET c == scan[s].filtered[i]
        IN \/ InOutput(c, scan[s].result)
           \/ \E r \in 1..Len(scan[s].result) :
                c.start < scan[s].result[r].end /\ c.end > scan[s].result[r].start

\* The order of pickBetterOverlap's comment: specific before vague, then the
\* lower priority index, then the longer span, then the earlier start, then
\* the earlier end.
StrictlyBetter(d, c) ==
  LET key(x) == <<IF x.isWildcard THEN 1 ELSE 0, x.priority, 0 - (x.end - x.start),
                  x.start, x.end>>
  IN \E p \in 1..5 : key(d)[p] < key(c)[p] /\ \A q \in 1..(p - 1) : key(d)[q] = key(c)[q]

\* C4 as amended: every surviving candidate that is absent from the output
\* overlaps a surviving candidate that is strictly better under
\* pickBetterOverlap's order (which may itself be absent from the output).
C4_LostToBetter ==
  \A s \in DOMAIN scan :
    Done(s) =>
      \A i \in 1..Len(scan[s].filtered) :
        LET c == scan[s].filtered[i]
        IN \/ InOutput(c, scan[s].result)
           \/ \E j \in 1..Len(scan[s].filtered) :
                /\ Overlaps(c, scan[s].filtered[j])
                /\ StrictlyBetter(scan[s].filtered[j], c)

C4_Witness ==
  \E s \in DOMAIN scan :
    /\ Done(s)
    /\ \E i \in 1..Len(scan[s].filtered) :
         /\ ~InOutput(scan[s].filtered[i], scan[s].result)
         /\ \A r \in 1..Len(scan[s].result) :
              ~(scan[s].filtered[i].start < scan[s].result[r].end
                /\ scan[s].filtered[i].end > scan[s].result[r].start)

(***************************************************************************)
(* Properties of scans that share a handle, and of compilation.            *)
(***************************************************************************)
\* C5 as claimed: two findMatches calls that share one compiled handle and
\* whose steps interleave each return what the call returns when it runs
\* alone.
C5_InterleavedAsAlone ==
  \A s \in DOMAIN scan :
    Done(s) => scan[s].result = FindMatchesAlone(handles[scan[s].h], scan[s].t)

\* C6: two handles compiled from the same config give the same result for
\* the same text, whatever scans each has served before.
C6_CompileIdempotent ==
  \A t \in DOMAIN texts :
    (results[1][t] # <<>> /\ results[2][t] # <<>>) => results[1][t] = results[2][t]

C6_Witness ==
  /\ scansLeft = 0
  /\ \E t, u \in DOMAIN texts :
       /\ results[1][t] # <<>> /\ results[2][t] # <<>>
       /\ results[1][t][1] # <<>>
       /\ results[1][u] # <<>> /\ results[1][u] # results[1][t]

\* The config without its disabled categories.
WithoutDisabled(cfg) ==
  [cfg EXCEPT !.categories = SelectSeq(@, LAMBDA cat : cat.enabled # FALSE)]

\* C7: no returned match carries the name of a disabled category, and the
\* result is the one the config without its disabled categories gives.
C7_DisabledSilent ==
  \A s \in DOMAIN scan :
    Done(s) =>
      /\ \A r \in 1..Len(scan[s].result) :
           config.categories[scan[s].result[r].categoryName].enabled
      /\ scan[s].result = FindMatchesAlone(CompileAll(WithoutDisabled(config)), scan[s].t)

C7_Witness ==
  \E s \in DOMAIN scan :
    /\ Done(s)
    /\ scan[s].result # <<>>
    /\ \E c \in DOMAIN config.categories :
         /\ ~config.categories[c].enabled
         /\ config.categories[c].buckets[3].present
         /\ c < scan[s].result[1].categoryName
         /\ \E q \in 1..(texts[scan[s].t].len + 1) :
              /\ config.categories[c].buckets[3].ends[scan[s].t][q] # NoMatch
              /\ q - 1 < scan[s].result[1].end
              /\ config.categories[c].buckets[3].ends[scan[s].t][q] > scan[s].result[1].start

\* A category survives compilation when it is enabled and holds a word.
Survives(cat) ==
  /\ cat.enabled # FALSE
  /\ \E b \in DOMAIN cat.buckets : cat.buckets[b].present /\ ~cat.buckets[b].throws

\* C8: the priority of every candidate is the number of surviving categories
\* that precede its category in the config, and when a sweep turn compares
\* two overlapping candidates of different categories with equal wildcard
\* flag, the candidate of the earlier category is the winner it leaves.
C8_DensePriority ==
  /\ [](\A s \in DOMAIN scan : \A i \in 1..Len(scan[s].allMatches) :
          scan[s].allMatches[i].priority =
            Cardinality({d \in 1..(scan[s].allMatches[i].name - 1) :
                           Survives(config.categories[d])}))
  /\ [][\A s \in DOMAIN scan :
          (/\ scan[s].pc = "sweep"
           /\ scan[s].k <= Len(scan[s].filtered)
           /\ scan'[s].k = scan[s].k + 1
           /\ scan[s].winner # <<>>)
          => LET m == scan[s].filtered[scan[s].k]
                 w == scan[s].winner[1]
             IN (Overlaps(m, w) /\ m.isWildcard = w.isWildcard /\ m.name # w.name)
                => scan'[s].winner[1].name = (IF m.name < w.name THEN m.name ELSE w.name)]_vars

C8_Witness ==
  \E s \in DOMAIN scan :
    /\ Done(s)
    /\ ~Survives(config.categories[1])
    /\ \E i, j \in 1..Len(scan[s].filtered) :
         LET a == scan[s].filtered[i]
             b == scan[s].filtered[j]
         IN /\ a.name = 2 /\ a.priority = 0
            /\ b.name = 3 /\ b.priority = 1
            /\ Overlaps(a, b)
            /\ b.start < a.start
            /\ InOutput(a, scan[s].result) /\ ~InOutput(b, scan[s].result)

(***************************************************************************)
(* Properties of the scanner.                                              *)
(***************************************************************************)

\* C9: findMatches returns [] for the empty text under every config, and for
\* every text under the config with no ignore word and no category.
C9_EmptyInputs ==
  \A s \in DOMAIN scan :
    (Done(s) /\ (texts[scan[s].t].len = 0 \/ (config.ignoreList = NoBuckets /\ config.categories = <<>>))) => scan[s].result = <<>>

C9_Witness ==
  \E s \in DOMAIN scan :
    /\ Done(s)
    /\ texts[scan[s].t].len = 0
    /\ Len(config.categories) = 1
    /\ config.categories[1].buckets[4].ends[scan[s].t][1] = 0
    /\ scan[s].result = <<>>

\* C10 as claimed: after a zero-length occurrence the next search starts
\* past the place of that occurrence, after any other occurrence lastIndex
\* has grown (so the while loop ends), and every range, candidate and
\* returned match has start < end and lies within the text.
C10_ScannerAdvances ==
  \A s \in DOMAIN scan :
    LET sc == scan[s]
        text == texts[sc.t]
        Within(x) == 0 <= x.start /\ x.start < x.end /\ x.end <= text.len
    IN /\ (sc.pc = "scan" /\ sc.entered) =>
            LET re == RegexAt(handles[sc.h], sc.work[sc.n])
                m == RegExpExec(re.ends[sc.t], text, re.lastIndex)
                body == LoopBody(m, m)
            IN m.found =>
                 /\ body.lastIndex > re.lastIndex
                 /\ m.end = m.index => CodePointStart(text, body.lastIndex) > m.index
       /\ \A i \in 1..Len(sc.ignoreRanges) : Within(sc.ignoreRanges[i])
       /\ \A i \in 1..Len(sc.allMatches) : Within(sc.allMatches[i])
       /\ \A i \in 1..Len(sc.result) : Within(sc.result[i])

(***************************************************************************)
(* Strings.  A string is the sequence of its characters; the characters    *)
(* that occur are the ones below.                                          *)
(***************************************************************************)
\* \s of the regexes, the characters String.prototype.trim removes.
IsWhiteSpace(ch) == ch \in {" ", "\n"}

\* \p{P}
IsPunctuation(ch) == ch \in {",", "!", "/", ":", "*", "?"}

\* String.prototype.toLowerCase on one character.  DOTTED_I is U+0130
\* (capital I with dot above), whose lowercase is the two characters i and
\* COMBINING_DOT (U+0307).
LowerOf(ch) ==
  CASE ch = "A" -> <<"a">>
    [] ch = "C" -> <<"c">>
    [] ch = "S" -> <<"s">>
    [] ch = "DOTTED_I" -> <<"i", "COMBINING_DOT">>
    [] OTHER -> <<ch>>

RECURSIVE Concat(_)
Concat(parts) == IF parts = <<>> THEN <<>> ELSE Head(parts) \o Concat(Tail(parts))

ToLowerCase(text) == Concat([i \in 1..Len(text) |-> LowerOf(text[i])])

\* The canonical form under which a /iu regex compares characters: the
\* simple case folding, which leaves U+0130 as it is.
Canonicalize(ch) ==
  CASE ch = "A" -> "a"
    [] ch = "C" -> "c"
    [] ch = "S" -> "s"
    [] OTHER -> ch

StartsWith(text, prefix) ==
  Len(text) >= Len(prefix) /\ SubSeq(text, 1, Len(prefix)) = prefix

Slice(text, n) == SubSeq(text, n + 1, Len(text))

Includes(text, ch) == \E i \in 1..Len(text) : text[i] = ch

Trim(text) ==
  LET keep == {i \in 1..Len(text) : ~IsWhiteSpace(text[i])}
  IN IF keep = {} THEN <<>>
     ELSE SubSeq(text, CHOOSE i \in keep : \A j \in keep : i <= j,
                       CHOOSE i \in keep : \A j \in keep : j <= i)

(***************************************************************************)
(* parseWordEntry.                                                         *)
(***************************************************************************)
\* isNull stands for the null returned for an entry with no text.
ParsedNull ==
  [isNull |-> TRUE, pattern |-> <<>>, exact |-> FALSE, caseSensitive |-> FALSE,
   boundaryBefore |-> FALSE, boundaryAfter |-> FALSE, hasWildcard |-> FALSE]

\* The boundary flags are the detected ones even for an exact entry.
ParseWordEntryExactNotForcing(rawEntry) ==
  LET caseSensitive == StartsWith(rawEntry, <<"C", "S", ":">>)
      afterCS == IF caseSensitive THEN Slice(rawEntry, 3) ELSE rawEntry
      exact == StartsWith(afterCS, <<"/", "/">>)
      afterExact == IF exact THEN Slice(afterCS, 2) ELSE afterCS
      boundaryBefore == Len(afterExact) > 0 /\ IsWhiteSpace(afterExact[1])
      boundaryAfter == Len(afterExact) > 0 /\ IsWhiteSpace(afterExact[Len(afterExact)])
      trimmed == Trim(afterExact)
      text == IF caseSensitive THEN trimmed ELSE ToLowerCase(trimmed)
  IN IF Len(trimmed) = 0 THEN ParsedNull
     ELSE [isNull |-> FALSE, pattern |-> text, exact |-> exact,
           caseSensitive |-> caseSensitive,
           boundaryBefore |-> boundaryBefore,
           boundaryAfter |-> boundaryAfter,
           hasWildcard |-> Includes(text, "*") \/ Includes(text, "?")]

\* The // prefix is looked for before the CS: prefix.
ParseWordEntryExactFirst(rawEntry) ==
  LET exact == StartsWith(rawEntry, <<"/", "/">>)
      afterExact == IF exact THEN Slice(rawEntry, 2) ELSE rawEntry
      caseSensitive == StartsWith(afterExact, <<"C", "S", ":">>)
      afterCS == IF caseSensitive THEN Slice(afterExact, 3) ELSE afterExact
      boundaryBefore == Len(afterCS) > 0 /\ IsWhiteSpace(afterCS[1])
      boundaryAfter == Len(afterCS) > 0 /\ IsWhiteSpace(afterCS[Len(afterCS)])
      trimmed == Trim(afterCS)
      text == IF caseSensitive THEN trimmed ELSE ToLowerCase(trimmed)
  IN IF Len(trimmed) = 0 THEN ParsedNull
     ELSE [isNull |-> FALSE, pattern |-> text, exact |-> exact,
           caseSensitive |-> caseSensitive,
           boundaryBefore |-> IF exact THEN TRUE ELSE boundaryBefore,
           boundaryAfter |-> IF exact THEN TRUE ELSE boundaryAfter,
           hasWildcard |-> Includes(text, "*") \/ Includes(text, "?")]

\* An entry with no text is kept as an empty pattern.
ParseWordEntryKeepingBlank(rawEntry) ==
  LET caseSensitive == StartsWith(rawEntry, <<"C", "S", ":">>)
      afterCS == IF caseSensitive THEN Slice(rawEntry, 3) ELSE rawEntry
      exact == StartsWith(afterCS, <<"/", "/">>)
      afterExact == IF exact THEN Slice(afterCS, 2) ELSE afterCS
      boundaryBefore == Len(afterExact) > 0 /\ IsWhiteSpace(afterExact[1])
      boundaryAfter == Len(afterExact) > 0 /\ IsWhiteSpace(afterExact[Len(afterExact)])
      trimmed == Trim(afterExact)
      text == IF caseSensitive THEN trimmed ELSE ToLowerCase(trimmed)
  IN [isNull |-> FALSE, pattern |-> text, exact |-> exact,
      caseSensitive |-> caseSensitive,
      boundaryBefore |-> IF exact THEN TRUE ELSE boundaryBefore,
      boundaryAfter |-> IF exact THEN TRUE ELSE boundaryAfter,
      hasWildcard |-> Includes(text, "*") \/ Includes(text, "?")]

ParseWordEntry(rawEntry) ==
  LET caseSensitive == StartsWith(rawEntry, <<"C", "S", ":">>)
      afterCS == IF caseSensitive THEN Slice(rawEntry, 3) ELSE rawEntry
      exact == StartsWith(afterCS, <<"/", "/">>)
      afterExact == IF exact THEN Slice(afterCS, 2) ELSE afterCS
      boundaryBefore == Len(afterExact) > 0 /\ IsWhiteSpace(afterExact[1])
      boundaryAfter == Len(afterExact) > 0 /\ IsWhiteSpace(afterExact[Len(afterExact)])
      trimmed == Trim(afterExact)
      text == IF caseSensitive THEN trimmed ELSE ToLowerCase(trimmed)
  IN IF Len(trimmed) = 0 THEN ParsedNull
     ELSE [isNull |-> FALSE, pattern |-> text, exact |-> exact,
           caseSensitive |-> caseSensitive,
           boundaryBefore |-> IF exact THEN TRUE ELSE boundaryBefore,
           boundaryAfter |-> IF exact THEN TRUE ELSE boundaryAfter,
           hasWildcard |-> Includes(text, "*") \/ Includes(text, "?")]

\* parseWordEntry of engine v5 (src/tools/matcher.js): no CS: prefix, the
\* text is always lowercased.
V5ParseWordEntry(rawEntry) ==
  LET exact == StartsWith(rawEntry, <<"/", "/">>)
      afterExact == IF exact THEN Slice(rawEntry, 2) ELSE rawEntry
      boundaryBefore == Len(afterExact) > 0 /\ IsWhiteSpace(afterExact[1])
      boundaryAfter == Len(afterExact) > 0 /\ IsWhiteSpace(afterExact[Len(afterExact)])
      trimmed == Trim(afterExact)
  IN IF Len(trimmed) = 0 THEN ParsedNull
     ELSE [isNull |-> FALSE, pattern |-> ToLowerCase(trimmed), exact |-> exact,
           caseSensitive |-> FALSE,
           boundaryBefore |-> IF exact THEN TRUE ELSE boundaryBefore,
           boundaryAfter |-> IF exact THEN TRUE ELSE boundaryAfter,
           hasWildcard |-> FALSE]

(***************************************************************************)
(* globToRegexFragment and compileWordToRegexFragment.  A fragment is the  *)
(* sequence of the pieces of the regex source, one atom per piece.         *)
(***************************************************************************)
Atom(kind) == [kind |-> kind, ch |-> ""]

\* An interior * stays within a token even when the pattern has a space.
GlobToRegexFragmentTokenOnly(pattern) ==
  LET hasLiteralSpace == Includes(pattern, " ")
  IN [i \in 1..Len(pattern) |->
        IF pattern[i] = "*"
        THEN (IF i = 1 \/ i = Len(pattern) THEN Atom("edgeStar")
              ELSE Atom("tokenLazy"))
        ELSE IF pattern[i] = "?"
        THEN (IF hasLiteralSpace THEN Atom("anyChar") ELSE Atom("tokenChar"))
        ELSE [kind |-> "literal", ch |-> pattern[i]]]

\* An interior * and a ? match any characters whether or not the pattern
\* has a space.
GlobToRegexFragmentCrossingTokens(pattern) ==
  [i \in 1..Len(pattern) |->
     IF pattern[i] = "*"
     THEN (IF i = 1 \/ i = Len(pattern) THEN Atom("edgeStar") ELSE Atom("anyLazy"))
     ELSE IF pattern[i] = "?" THEN Atom("anyChar")
     ELSE [kind |-> "literal", ch |-> pattern[i]]]

\* An edge * is the same minimal token run as an interior one.
GlobToRegexFragmentLazyEdge(pattern) ==
  LET hasLiteralSpace == Includes(pattern, " ")
  IN [i \in 1..Len(pattern) |->
        IF pattern[i] = "*"
        THEN (IF i = 1 \/ i = Len(pattern) THEN Atom("tokenLazy")
              ELSE IF hasLiteralSpace THEN Atom("anyLazy") ELSE Atom("tokenLazy"))
        ELSE IF pattern[i] = "?"
        THEN (IF hasLiteralSpace THEN Atom("anyChar") ELSE Atom("tokenChar"))
        ELSE [kind |-> "literal", ch |-> pattern[i]]]

\* edgeStar is [^\s\p{P}]*, anyLazy is [\s\S]*?, tokenLazy is [^\s]*?,
\* anyChar is [\s\S], tokenChar is [^\s]; any other character stands for
\* itself (escaped where the regex syntax needs it).
GlobToRegexFragment(pattern) ==
  LET hasLiteralSpace == Includes(pattern, " ")
  IN [i \in 1..Len(pattern) |->
        IF pattern[i] = "*"
        THEN (IF i = 1 \/ i = Len(pattern) THEN Atom("edgeStar")
              ELSE IF hasLiteralSpace THEN Atom("anyLazy") ELSE Atom("tokenLazy"))
        ELSE IF pattern[i] = "?"
        THEN (IF hasLiteralSpace THEN Atom("anyChar") ELSE Atom("tokenChar"))
        ELSE [kind |-> "literal", ch |-> pattern[i]]]

\* The boundary flags add nothing to the fragment.
CompileWordToRegexFragmentUnbounded(parsed) == GlobToRegexFragment(parsed.pattern)

\* before is (?:^|(?<=[\s\p{P}])), after is (?=$|[\s\p{P}]).
CompileWordToRegexFragment(parsed) ==
  (IF parsed.boundaryBefore THEN <<Atom("before")>> ELSE <<>>)
  \o GlobToRegexFragment(parsed.pattern)
  \o (IF parsed.boundaryAfter THEN <<Atom("after")>> ELSE <<>>)

(***************************************************************************)
(* What a regex built from fragments finds: the backtracking match of a    *)
(* fragment at a position of a text.                                       *)
(***************************************************************************)
IsBoundaryChar(ch) == IsWhiteSpace(ch) \/ IsPunctuation(ch)

InClass(kind, ch) ==
  CASE kind = "edgeStar" -> ~IsBoundaryChar(ch)
    [] kind \in {"tokenLazy", "tokenChar"} -> ~IsWhiteSpace(ch)
    [] OTHER -> TRUE

\* Flag i compares characters by their canonical form.
SameChar(a, b, ignoreCase) ==
  IF ignoreCase THEN Canonicalize(a) = Canonicalize(b) ELSE a = b

\* The positions at which the atoms k, k + 1, ... of the fragment begin in
\* the first successful match at pos, followed by the position where the
\* match ends; <<>> when there is no match.
RECURSIVE MatchPath(_, _, _, _, _)
MatchPath(atoms, k, chars, pos, ignoreCase) ==
  IF k > Len(atoms) THEN <<pos>>
  ELSE LET kind == atoms[k].kind
           Rest(p) == MatchPath(atoms, k + 1, chars, p, ignoreCase)
           Step(ok, p) == IF ok THEN (IF Rest(p) # <<>> THEN <<pos>> \o Rest(p) ELSE <<>>)
                          ELSE <<>>
           runs == {n \in 0..(Len(chars) - pos) :
                      \A i \in 1..n : InClass(kind, chars[pos + i])}
           good == {n \in runs : Rest(pos + n) # <<>>}
       IN CASE kind = "before" -> Step(pos = 0 \/ IsBoundaryChar(chars[pos]), pos)
            [] kind = "after" -> Step(pos = Len(chars) \/ IsBoundaryChar(chars[pos + 1]), pos)
            [] kind = "literal" ->
                 Step(pos < Len(chars) /\ SameChar(chars[pos + 1], atoms[k].ch, ignoreCase),
                      pos + 1)
            [] kind \in {"anyChar", "tokenChar"} ->
                 Step(pos < Len(chars) /\ InClass(kind, chars[pos + 1]), pos + 1)
            [] kind = "edgeStar" ->
                 IF good = {} THEN <<>>
                 ELSE <<pos>> \o Rest(pos + (CHOOSE n \in good : \A o \in good : o <= n))
            [] OTHER ->
                 IF good = {} THEN <<>>
                 ELSE <<pos>> \o Rest(pos + (CHOOSE n \in good : \A o \in good : n <= o))

(***************************************************************************)
(* compileCategory from the words of a category: the buckets, and what the *)
(* combined RegExp of each bucket finds in each text.                      *)
(***************************************************************************)
\* key.startsWith("sensitive") ? "gu" : "giu"
KeyIgnoresCase(b) == BucketKeys[b] \in {"insensitive_simple", "insensitive_wild"}

\* buckets[`${cs}_${wc}`], as an index into BucketKeys.
BucketOf(parsed) ==
  (IF parsed.caseSensitive THEN 0 ELSE 2) + (IF parsed.hasWildcard THEN 2 ELSE 1)

\* The items of bucket b in the order of the words, then sorted by pattern
\* length, longer first (Array.prototype.sort is stable).
BucketItems(words, b) ==
  LET parsed == [i \in 1..Len(words) |-> ParseWordEntry(words[i])]
      mine == {i \in 1..Len(words) : ~parsed[i].isNull /\ BucketOf(parsed[i]) = b}
      Before(j, i) == \/ Len(parsed[j].pattern) > Len(parsed[i].pattern)
                      \/ (Len(parsed[j].pattern) = Len(parsed[i].pattern) /\ j < i)
      Rank(i) == Cardinality({j \in mine : Before(j, i)}) + 1
  IN [r \in 1..Cardinality(mine) |-> parsed[CHOOSE i \in mine : Rank(i) = r]]

\* The end of the match of (?:f1)|(?:f2)|... at pos: that of the first
\* alternative that matches there.
RegexEnd(items, ignoreCase, chars, pos) ==
  LET Path(i) == MatchPath(CompileWordToRegexFragment(items[i]), 1, chars, pos, ignoreCase)
      hits == {i \in 1..Len(items) : Path(i) # <<>>}
  IN IF hits = {} THEN NoMatch
     ELSE LET first == CHOOSE i \in hits : \A o \in hits : i <= o
          IN Path(first)[Len(Path(first))]

WordBuckets(words, txts) ==
  [b \in 1..4 |->
     LET items == BucketItems(words, b)
     IN IF Len(items) = 0 THEN AbsentBucket
        ELSE [present |-> TRUE, throws |-> FALSE,
              ends |-> [t \in 1..Len(txts) |->
                          [q \in 1..(txts[t].len + 1) |->
                             RegexEnd(items, KeyIgnoresCase(b), txts[t].chars, q - 1)]]]]

\* A config given by its words; the words are kept beside the buckets.
WordConfig(ignoreList, cats, txts) ==
  [ignoreList |-> WordBuckets(ignoreList, txts),
   ignoreWords |-> ignoreList,
   categories |-> [c \in 1..Len(cats) |->
                     [name |-> c, enabled |-> TRUE, words |-> cats[c],
                      buckets |-> WordBuckets(cats[c], txts)]]]

TextOf(chars) == [len |-> Len(chars), pairs |-> {}, chars |-> chars]

\* The strings of length n over an alphabet, and those of length up to n.
StringsOfLen(alphabet, n) == [1..n -> alphabet]

StringsUpTo(alphabet, n) == UNION {StringsOfLen(alphabet, k) : k \in 0..n}

(***************************************************************************)
(* SpecParse: one scan of a text of ParseTextLen characters by a config    *)
(* whose first category holds one raw entry made of up to MaxRaw pieces    *)
(* (the prefixes CS: and //, a space, a letter), whose second category     *)
(* holds the word "a", and whose ignore list is empty or holds one entry   *)
(* with no text.                                                           *)
(***************************************************************************)
PrefixCS == <<"C", "S", ":">>

PrefixExact == <<"/", "/">>

RawEntries(n) ==
  {Concat(parts) : parts \in StringsUpTo({PrefixCS, PrefixExact, <<" ">>, <<"A">>}, n)}

ParseConfigs(txts, n) ==
  {WordConfig(ign, << <<raw>>, << <<"a">> >> >>, txts) :
     ign \in {<<>>, << <<" ">> >>, <<PrefixCS \o PrefixExact>>}, raw \in RawEntries(n)}

InitParse ==
  \E tx \in StringsOfLen({"a", "A", " "}, ParseTextLen) :
    InitWith(<<TextOf(tx)>>, ParseConfigs(<<TextOf(tx)>>, MaxRaw), 1, 1, 1, FALSE)

SpecParse == InitParse /\ [][Next]_vars

(***************************************************************************)
(* SpecCase: one scan of a text of CaseTextLen letters by one category     *)
(* with one entry of up to CaseWordLen letters, with or without CS:.       *)
(***************************************************************************)
CaseLetters == {"a", "A", "DOTTED_I"}

CaseEntries(n) ==
  {pre \o word : pre \in {<<>>, PrefixCS},
                 word \in StringsUpTo(CaseLetters, n) \ {<<>>}}

InitCase ==
  \E tx \in StringsOfLen(CaseLetters, CaseTextLen) :
    InitWith(<<TextOf(tx)>>,
             {WordConfig(<<>>, << <<raw>> >>, <<TextOf(tx)>>) : raw \in CaseEntries(CaseWordLen)},
             1, 1, 1, FALSE)

SpecCase == InitCase /\ [][Next]_vars

(***************************************************************************)
(* Properties of parseWordEntry.                                           *)
(***************************************************************************)
\* The raw entries of the config.
ConfigWords ==
  {config.ignoreWords[i] : i \in 1..Len(config.ignoreWords)}
  \cup UNION {{config.categories[c].words[i] : i \in 1..Len(config.categories[c].words)} :
                c \in 1..Len(config.categories)}

\* What remains of a raw entry when a CS: at its start is removed.
AfterCS(raw) == IF StartsWith(raw, PrefixCS) THEN Slice(raw, 3) ELSE raw

\* What remains when a // at the start of that is removed too.
AfterPrefixes(raw) ==
  IF StartsWith(AfterCS(raw), PrefixExact) THEN Slice(AfterCS(raw), 2) ELSE AfterCS(raw)

\* C11: for every raw entry that parseWordEntry accepts, an exact entry has
\* both boundary flags true, and each boundary flag of a non-exact entry
\* tells whether the text left after the prefixes starts, respectively
\* ends, with a whitespace character; the same for the v5 parser, whose
\* only prefix is //.
C11_ExactImpliesBoundaries ==
  \A raw \in ConfigWords :
    LET p == ParseWordEntry(raw)
        q == V5ParseWordEntry(raw)
        rest == AfterPrefixes(raw)
        rest5 == IF StartsWith(raw, PrefixExact) THEN Slice(raw, 2) ELSE raw
    IN /\ ~p.isNull =>
            /\ p.exact = StartsWith(AfterCS(raw), PrefixExact)
            /\ p.exact => p.boundaryBefore /\ p.boundaryAfter
            /\ ~p.exact => /\ p.boundaryBefore = IsWhiteSpace(rest[1])
                           /\ p.boundaryAfter = IsWhiteSpace(rest[Len(rest)])
       /\ ~q.isNull =>
            /\ q.exact = StartsWith(raw, PrefixExact)
            /\ q.exact => q.boundaryBefore /\ q.boundaryAfter
            /\ ~q.exact => /\ q.boundaryBefore = IsWhiteSpace(rest5[1])
                           /\ q.boundaryAfter = IsWhiteSpace(rest5[Len(rest5)])

C11_Witness ==
  /\ handles[1].compiled
  /\ \E raw \in ConfigWords :
       /\ ParseWordEntry(raw).exact
       /\ AfterPrefixes(raw) = <<"A">>
       /\ ParseWordEntry(raw).boundaryBefore /\ ParseWordEntry(raw).boundaryAfter
       /\ V5ParseWordEntry(raw).exact

\* An entry with no text: nothing but whitespace is left after the prefixes.
IsBlank(raw) == Trim(AfterPrefixes(raw)) = <<>>

AllBlank(words) == \A i \in 1..Len(words) : IsBlank(words[i])

\* C12: parseWordEntry returns null for an entry with no text; a category
\* whose entries are all such is absent from compiledCategories and no
\* candidate or returned match carries its name; an ignore list whose
\* entries are all such gives a null ignore handle and no ignore range.
C12_BlankEntriesSkipped ==
  /\ \A raw \in ConfigWords : IsBlank(raw) => ParseWordEntry(raw).isNull
  /\ \A h \in DOMAIN handles :
       handles[h].compiled =>
         /\ AllBlank(config.ignoreWords) => handles[h].ignoreCompiled.isNull
         /\ \A c \in 1..Len(config.categories) :
              AllBlank(config.categories[c].words) =>
                \A i \in 1..Len(handles[h].compiledCategories) :
                  handles[h].compiledCategories[i].name # c
  /\ \A s \in DOMAIN scan :
       /\ AllBlank(config.ignoreWords) => scan[s].ignoreRanges = <<>>
       /\ \A c \in 1..Len(config.categories) :
            AllBlank(config.categories[c].words) =>
              /\ \A i \in 1..Len(scan[s].allMatches) : scan[s].allMatches[i].name # c
              /\ \A r \in 1..Len(scan[s].result) : scan[s].result[r].categoryName # c

C12_Witness ==
  \E s \in DOMAIN scan :
    /\ Done(s)
    /\ config.ignoreWords = <<PrefixCS \o PrefixExact>>
    /\ config.categories[1].words # << <<>> >>
    /\ AllBlank(config.categories[1].words)
    /\ Len(handles[scan[s].h].compiledCategories) = 1
    /\ scan[s].result # <<>>

(***************************************************************************)
(* Properties of case sensitivity and of the order of the prefixes.        *)
(***************************************************************************)

\* The candidate list of a call is complete once its scanning loops ended.
Collected(s) == scan[s].pc \in {"filter", "sort", "sweep", "done"}

\* C14: a CS: entry keeps its text as typed, goes to a bucket whose regex
\* has no i flag, and its matches span text equal to the pattern letter for
\* letter; an entry without CS: is lowercased, goes to a bucket with the i
\* flag, and its matches span text equal to the pattern up to letter case;
\* with no boundary flag, every piece of the text that equals the typed
\* text (letter for letter for CS:, up to letter case otherwise) meets a
\* candidate.
C14_CaseSensitivity ==
  /\ \A raw \in ConfigWords :
       LET p == ParseWordEntry(raw)
       IN ~p.isNull =>
            /\ p.caseSensitive = StartsWith(raw, PrefixCS)
            /\ p.pattern = IF p.caseSensitive THEN Trim(AfterPrefixes(raw))
                           ELSE ToLowerCase(Trim(AfterPrefixes(raw)))
            /\ KeyIgnoresCase(BucketOf(p)) = ~p.caseSensitive
  /\ \A s \in DOMAIN scan :
       LET raw == config.categories[1].words[1]
           p == ParseWordEntry(raw)
           typed == Trim(AfterPrefixes(raw))
           chars == texts[scan[s].t].chars
           mine == {i \in 1..Len(scan[s].allMatches) : scan[s].allMatches[i].name = 1}
       IN /\ \A i \in mine :
               LET span == SubSeq(texts[scan[s].t].chars, scan[s].allMatches[i].start + 1,
                                  scan[s].allMatches[i].end)
               IN IF p.caseSensitive THEN span = typed
                  ELSE ToLowerCase(span) = ToLowerCase(typed)
          /\ (Collected(s) /\ ~p.isNull /\ ~p.boundaryBefore /\ ~p.boundaryAfter) =>
               \A pos \in 0..(Len(chars) - 1), end \in 1..Len(chars) :
                 (/\ pos < end
                  /\ IF p.caseSensitive THEN SubSeq(chars, pos + 1, end) = typed
                     ELSE ToLowerCase(SubSeq(chars, pos + 1, end)) = ToLowerCase(typed))
                 => \E i \in mine : /\ scan[s].allMatches[i].start < end
                                    /\ pos < scan[s].allMatches[i].end

\* C15: CS: is recognised only at the very start of the raw entry and //
\* only at the start of what remains after the optional CS:; CS://A is
\* case-sensitive and exact with text A, //CS:A is exact and not
\* case-sensitive with text cs:a, and an entry that starts with a space has
\* neither flag.
C15_ModifierOrder ==
  \A raw \in ConfigWords :
    LET p == ParseWordEntry(raw)
    IN ~p.isNull =>
         /\ p.caseSensitive = StartsWith(raw, PrefixCS)
         /\ p.exact = StartsWith(AfterCS(raw), PrefixExact)
         /\ raw = PrefixCS \o PrefixExact \o <<"A">> =>
              p.caseSensitive /\ p.exact /\ p.pattern = <<"A">>
         /\ raw = PrefixExact \o PrefixCS \o <<"A">> =>
              p.exact /\ ~p.caseSensitive /\ p.pattern = <<"c", "s", ":", "a">>
         /\ (Len(raw) > 0 /\ raw[1] = " ") => ~p.caseSensitive /\ ~p.exact

C15_Witness ==
  \E s \in DOMAIN scan :
    /\ Done(s)
    /\ \/ config.categories[1].words = <<PrefixExact \o PrefixCS \o <<"A">> >>
       \/ config.categories[1].words = << <<" ">> \o PrefixCS \o <<"A">> >>
    /\ ~ParseWordEntry(config.categories[1].words[1]).caseSensitive
    /\ \A i \in 1..Len(scan[s].allMatches) : scan[s].allMatches[i].name # 1

(***************************************************************************)
(* SpecBoundary: one scan of a text of BoundLen characters (letters, a     *)
(* space, a comma) by one category with one entry: a pattern of up to      *)
(* BoundPat characters, after nothing, a space or //, before nothing or a  *)
(* space.                                                                  *)
(***************************************************************************)
TextChars == {"a", "b", " ", ","}

BoundaryEntries(n) ==
  {pre \o pat \o post : pre \in {<<>>, <<" ">>, PrefixExact},
                        pat \in StringsUpTo({"a", "*"}, n) \ {<<>>},
                        post \in {<<>>, <<" ">>}}

BoundaryConfigs(txts, n) ==
  {WordConfig(<<>>, << <<raw>> >>, txts) : raw \in BoundaryEntries(n)}

InitBoundary ==
  \E tx \in StringsOfLen(TextChars, BoundLen) :
    InitWith(<<TextOf(tx)>>, BoundaryConfigs(<<TextOf(tx)>>, BoundPat), 1, 1, 1, FALSE)

SpecBoundary == InitBoundary /\ [][Next]_vars

(***************************************************************************)
(* Properties of boundaries and wildcards.  The category has one entry.    *)
(***************************************************************************)
\* The parse of the one entry of the one category.
TheWord == ParseWordEntry(config.categories[1].words[1])

\* The literal string pat stands at pos in chars, up to letter case or not.
LiteralAt(chars, pat, pos, anyCase) ==
  /\ pos + Len(pat) <= Len(chars)
  /\ \A i \in 1..Len(pat) : SameChar(chars[pos + i], pat[i], anyCase)

\* pos is the start of the text or comes right after a whitespace or
\* punctuation character; respectively the end and right before.
BoundaryBeforePos(chars, pos) == pos = 0 \/ IsBoundaryChar(chars[pos])

BoundaryAfterPos(chars, pos) == pos = Len(chars) \/ IsBoundaryChar(chars[pos + 1])

\* C13: with boundaryBefore every candidate starts at 0 or right after a
\* whitespace or punctuation character, which is thus outside the span;
\* with boundaryAfter every candidate ends at the end of the text or right
\* before such a character; and a literal pattern is found wherever it
\* stands with the boundaries its flags ask for.
C13_Boundaries ==
  \A s \in DOMAIN scan :
    LET chars == texts[scan[s].t].chars
        all == scan[s].allMatches
    IN /\ \A i \in 1..Len(all) :
            /\ TheWord.boundaryBefore => BoundaryBeforePos(chars, all[i].start)
            /\ TheWord.boundaryAfter => BoundaryAfterPos(chars, all[i].end)
       /\ (Collected(s) /\ ~TheWord.isNull /\ ~TheWord.hasWildcard) =>
            \A pos \in 0..(Len(chars) - 1) :
              (/\ LiteralAt(chars, TheWord.pattern, pos, TRUE)
               /\ TheWord.boundaryBefore => BoundaryBeforePos(chars, pos)
               /\ TheWord.boundaryAfter =>
                    BoundaryAfterPos(chars, pos + Len(TheWord.pattern)))
              => \E i \in 1..Len(all) :
                   all[i].start < pos + Len(TheWord.pattern) /\ pos < all[i].end

C13_Witness ==
  \E s \in DOMAIN scan :
    /\ Done(s)
    /\ TheWord.exact /\ TheWord.pattern = <<"a">>
    /\ texts[scan[s].t].chars = <<",", "a", " ">>
    /\ scan[s].result = <<[start |-> 1, end |-> 2, categoryName |-> 1]>>

(***************************************************************************)
(* SpecToken: one scan of a text of TokLen characters by one category with *)
(* one entry, a pattern of up to PatLen characters among a letter, * and   *)
(* ?, with no prefix and no whitespace.                                    *)
(***************************************************************************)
TokenConfigs(txts, n) ==
  {WordConfig(<<>>, << <<raw>> >>, txts) : raw \in StringsUpTo({"a", "*", "?"}, n) \ {<<>>}}

InitToken ==
  \E tx \in StringsOfLen(TextChars, TokLen) :
    InitWith(<<TextOf(tx)>>, TokenConfigs(<<TextOf(tx)>>, PatLen), 1, 1, 1, FALSE)

SpecToken == InitToken /\ [][Next]_vars

\* The pattern is a literal string, one interior *, a literal string.
OneInteriorStar(pattern) ==
  /\ Len(pattern) >= 3
  /\ pattern[1] # "*" /\ pattern[Len(pattern)] # "*"
  /\ Cardinality({k \in 1..Len(pattern) : pattern[k] = "*"}) = 1
  /\ ~Includes(pattern, "?")

StarAt(pattern) == CHOOSE k \in 1..Len(pattern) : pattern[k] = "*"

\* C16: for a pattern with no whitespace character no candidate spans a
\* whitespace character; and when the pattern is L*R with literal L and R,
\* a candidate starts with L and ends with the first R that follows it.
C16_TokenContainment ==
  \A s \in DOMAIN scan :
    LET chars == texts[scan[s].t].chars
        all == scan[s].allMatches
        pat == TheWord.pattern
    IN (\A k \in 1..Len(pat) : ~IsWhiteSpace(pat[k])) =>
         \A i \in 1..Len(all) :
           /\ \A j \in (all[i].start + 1)..all[i].end : ~IsWhiteSpace(chars[j])
           /\ OneInteriorStar(pat) =>
                LET left == SubSeq(pat, 1, StarAt(pat) - 1)
                    right == SubSeq(pat, StarAt(pat) + 1, Len(pat))
                    from == all[i].start + Len(left)
                IN /\ LiteralAt(chars, left, all[i].start, TRUE)
                   /\ LiteralAt(chars, right, all[i].end - Len(right), TRUE)
                   /\ all[i].end - Len(right) >= from
                   /\ \A q \in from..(all[i].end - Len(right) - 1) :
                        ~LiteralAt(chars, right, q, TRUE)

C16_Witness ==
  \E s \in DOMAIN scan :
    /\ Done(s)
    /\ TheWord.pattern = <<"a", "*", "a">>
    /\ texts[scan[s].t].chars = <<"a", ",", "a">>
    /\ scan[s].result = <<[start |-> 0, end |-> 3, categoryName |-> 1]>>

\* The positions at which the atoms of the one word's fragment begin in the
\* match that starts at start, followed by the end of the match.
WordPath(chars, start) ==
  MatchPath(CompileWordToRegexFragment(TheWord), 1, chars, start,
            KeyIgnoresCase(BucketOf(TheWord)))

\* C17: the part of a candidate contributed by a * that is the first or the
\* last character of the pattern holds no whitespace and no punctuation, a
\* last * runs up to the end of the text or a whitespace or punctuation
\* character, and a first * starts at the start of the text or right after
\* a whitespace or punctuation character.
C17_EdgeWildcard ==
  \A s \in DOMAIN scan :
    LET chars == texts[scan[s].t].chars
        all == scan[s].allMatches
        pat == TheWord.pattern
        n == Len(pat)
        off == IF TheWord.boundaryBefore THEN 1 ELSE 0
    IN \A i \in 1..Len(all) :
         LET path == WordPath(chars, all[i].start)
         IN /\ path # <<>>
            /\ path[Len(path)] = all[i].end
            /\ \A k \in {1, n} :
                 pat[k] = "*" =>
                   \A j \in (path[k + off] + 1)..path[k + off + 1] : ~IsBoundaryChar(chars[j])
            /\ pat[n] = "*" =>
                 (all[i].end = Len(chars) \/ IsBoundaryChar(chars[all[i].end + 1]))
            /\ pat[1] = "*" =>
                 (all[i].start = 0 \/ IsBoundaryChar(chars[all[i].start]))

C17_Witness ==
  \E s \in DOMAIN scan :
    /\ Done(s)
    /\ TheWord.pattern = <<"a", "*">>
    /\ texts[scan[s].t].chars = <<"a", "b", ",">>
    /\ scan[s].result = <<[start |-> 0, end |-> 2, categoryName |-> 1]>>

\* C17 amended: as C17, but a first * starts at the start of the text, right
\* after a whitespace or punctuation character, or right where the previous
\* match of the same search ended, which has consumed the characters before.
C17_EdgeWildcardAfterPrevious ==
  \A s \in DOMAIN scan :
    LET chars == texts[scan[s].t].chars
        all == scan[s].allMatches
        pat == TheWord.pattern
        n == Len(pat)
        off == IF TheWord.boundaryBefore THEN 1 ELSE 0
    IN \A i \in 1..Len(all) :
         LET path == WordPath(chars, all[i].start)
         IN /\ path # <<>>
            /\ path[Len(path)] = all[i].end
            /\ \A k \in {1, n} :
                 pat[k] = "*" =>
                   \A j \in (path[k + off] + 1)..path[k + off + 1] : ~IsBoundaryChar(chars[j])
            /\ pat[n] = "*" =>
                 (all[i].end = Len(chars) \/ IsBoundaryChar(chars[all[i].end + 1]))
            /\ pat[1] = "*" =>
                 \/ all[i].start = 0
                 \/ IsBoundaryChar(chars[all[i].start])
                 \/ \E j \in 1..Len(all) : j # i /\ all[j].end = all[i].start

(***************************************************************************)
(* SpecPhrase: one scan of a text of PhraseLen characters among a letter,  *)
(* a space and a newline by one category with one entry, a pattern of up   *)
(* to PhrasePat characters among a letter, * and a space that holds a      *)
(* space and neither starts nor ends with one.                             *)
(***************************************************************************)
PhraseEntries(n) ==
  {raw \in StringsUpTo({"a", "*", " "}, n) :
     /\ Len(raw) >= 3
     /\ raw[1] # " " /\ raw[Len(raw)] # " "
     /\ Includes(raw, " ")}

InitPhrase ==
  \E tx \in StringsOfLen({"a", " ", "\n"}, PhraseLen) :
    InitWith(<<TextOf(tx)>>,
             {WordConfig(<<>>, << <<raw>> >>, <<TextOf(tx)>>) : raw \in PhraseEntries(PhrasePat)},
             1, 1, 1, FALSE)

SpecPhrase == InitPhrase /\ [][Next]_vars

\* The places q >= from of the text at which the literal right stands.
Occurrences(chars, right, from) ==
  {q \in from..Len(chars) : LiteralAt(chars, right, q, TRUE)}

\* C18: for a pattern L*R that holds a literal space, with literal L and R,
\* a candidate starts with L and ends with the first R after it, whatever
\* characters lie between, whitespace included; and the first place of the
\* text where L stands with an R somewhere after it starts a candidate.
C18_MultiWordWildcard ==
  \A s \in DOMAIN scan :
    LET chars == texts[scan[s].t].chars
        all == scan[s].allMatches
        pat == TheWord.pattern
    IN (OneInteriorStar(pat) /\ Includes(pat, " ")) =>
         LET left == SubSeq(pat, 1, StarAt(pat) - 1)
             right == SubSeq(pat, StarAt(pat) + 1, Len(pat))
             places == {p \in 0..Len(chars) :
                          /\ LiteralAt(chars, left, p, TRUE)
                          /\ Occurrences(chars, right, p + Len(left)) # {}}
         IN /\ \A i \in 1..Len(all) :
                 LET occ == Occurrences(chars, right, all[i].start + Len(left))
                 IN /\ LiteralAt(chars, left, all[i].start, TRUE)
                    /\ occ # {}
                    /\ all[i].end - Len(right) \in occ
                    /\ \A q \in occ : all[i].end - Len(right) <= q
            /\ (Collected(s) /\ places # {}) =>
                 \E i \in 1..Len(all) : \A p \in places : all[i].start <= p

C18_Witness ==
  \E s \in DOMAIN scan :
    /\ Done(s)
    /\ TheWord.pattern = <<"a", " ", "*", "a">>
    /\ texts[scan[s].t].chars = <<"a", " ", "\n", "a">>
    /\ scan[s].result = <<[start |-> 0, end |-> 4, categoryName |-> 1]>>

\* The ends of the pieces of the text that start at pos and read as the
\* pattern from its character k on, a space of the pattern standing for one
\* or more whitespace characters of the text.
RECURSIVE SpacedEnds(_, _, _, _)
SpacedEnds(pat, k, chars, pos) ==
  IF k > Len(pat) THEN {pos}
  ELSE IF pat[k] = " "
  THEN UNION {SpacedEnds(pat, k + 1, chars, pos + n) :
                n \in {m \in 1..(Len(chars) - pos) :
                         \A i \in 1..m : IsWhiteSpace(chars[pos + i])}}
  ELSE IF pos < Len(chars) /\ SameChar(chars[pos + 1], pat[k], TRUE)
  THEN SpacedEnds(pat, k + 1, chars, pos + 1)
  ELSE {}

\* C19: for a pattern of letters and spaces, every piece of the text that
\* reads as the pattern with one or more whitespace characters in the place
\* of each space meets a candidate.
C19_SpaceMatchesWhitespace ==
  \A s \in DOMAIN scan :
    LET chars == texts[scan[s].t].chars
        all == scan[s].allMatches
        pat == TheWord.pattern
    IN (Collected(s) /\ ~TheWord.hasWildcard) =>
         \A pos \in 0..Len(chars) :
           \A end \in SpacedEnds(pat, 1, chars, pos) :
             \E i \in 1..Len(all) : all[i].start < end /\ pos < all[i].end

(***************************************************************************)
(* SpecThrow: one scan of a text of ThrowLen code units by two categories  *)
(* with words in the buckets insensitive_simple and insensitive_wild and   *)
(* an ignore list with words in insensitive_simple; the regexes would find *)
(* at most ThrowPool occurrences in all, and new RegExp throws for any of  *)
(* the buckets that hold a word.                                           *)
(***************************************************************************)
ThrowBucketsFor(hits, slots, thr, len) ==
  [b \in 1..4 |->
     IF \E k \in 1..Len(slots) : slots[k] = b /\ hits[k] # {}
     THEN LET k == CHOOSE k \in 1..Len(slots) : slots[k] = b
          IN [present |-> TRUE, throws |-> thr[k], ends |-> <<EndsOf(hits[k], len)>>]
     ELSE AbsentBucket]

ThrowConfigs(len) ==
  {[ignoreList |-> ThrowBucketsFor(<<tab[1]>>, <<3>>, <<thr[1]>>, len),
    categories |-> [c \in 1..2 |->
       [name |-> c, enabled |-> TRUE,
        buckets |-> ThrowBucketsFor(<<tab[2 * c], tab[2 * c + 1]>>, <<3, 4>>,
                                    <<thr[2 * c], thr[2 * c + 1]>>, len)]]] :
   tab \in HitTables(5, ThrowPool, len), thr \in [1..5 -> BOOLEAN]}

InitThrow == InitWith(<<PlainText(ThrowLen)>>, ThrowConfigs(ThrowLen), 1, 1, 1, FALSE)

SpecThrow == InitThrow /\ [][Next]_vars

\* The buckets of a word list for which new RegExp returns.
Working(buckets) == {b \in DOMAIN buckets : buckets[b].present /\ ~buckets[b].throws}

\* The config without the buckets whose new RegExp throws.
WithoutThrowing(cfg) ==
  LET Kept(buckets) ==
        [b \in DOMAIN buckets |-> IF buckets[b].throws THEN AbsentBucket ELSE buckets[b]]
  IN [ignoreList |-> Kept(cfg.ignoreList),
      categories |-> [c \in DOMAIN cfg.categories |->
                        [cfg.categories[c] EXCEPT !.buckets = Kept(@)]]]

\* C20: compileAll returns a handle whatever buckets throw; the ignore
\* handle is null only when no bucket of the ignore list works; the compiled
\* categories are, in order, the categories with a working bucket, each with
\* one regex per working bucket; and the result of a scan is the one the
\* config without the throwing buckets gives.
C20_LocalRecovery ==
  /\ \A h \in DOMAIN handles :
       handles[h].compiled =>
         LET cats == handles[h].compiledCategories
             live == SelectSeq(config.categories, Survives)
         IN /\ handles[h].ignoreCompiled.isNull = (Working(config.ignoreList) = {})
            /\ Len(handles[h].ignoreCompiled.regexes) = Cardinality(Working(config.ignoreList))
            /\ Len(cats) = Len(live)
            /\ \A i \in 1..Len(cats) :
                 /\ cats[i].name = live[i].name
                 /\ Len(cats[i].regexes) = Cardinality(Working(live[i].buckets))
                 /\ \A b \in Working(live[i].buckets) :
                      \E r \in 1..Len(cats[i].regexes) :
                        /\ cats[i].regexes[r].ends = live[i].buckets[b].ends
                        /\ cats[i].regexes[r].isWildcard = KeyIsWildcard(b)
  /\ \A s \in DOMAIN scan :
       Done(s) =>
         scan[s].result = FindMatchesAlone(CompileAll(WithoutThrowing(config)), scan[s].t)

C20_Witness ==
  \E s \in DOMAIN scan :
    /\ Done(s)
    /\ config.categories[1].buckets[3].present /\ config.categories[1].buckets[3].throws
    /\ config.categories[1].buckets[4].present /\ ~config.categories[1].buckets[4].throws
    /\ \E r \in 1..Len(scan[s].result) : scan[s].result[r].categoryName = 1

(***************************************************************************)
(* SpecV5: one scan of a text of V5Len code units by a config of the shape *)
(* engine v5 compiles: one regex for the ignore list and one regex for     *)
(* each of two categories, which find at most V5Pool occurrences in all.   *)
(***************************************************************************)
V5Configs(len) ==
  {[ignoreList |-> BucketsFor(<<tab[1]>>, <<3>>, len),
    categories |-> [c \in 1..2 |->
       [name |-> c, enabled |-> TRUE,
        buckets |-> BucketsFor(<<tab[c + 1]>>, <<3>>, len)]]] :
   tab \in HitTables(3, V5Pool, len)}

InitV5 == InitWith(<<PlainText(V5Len)>>, V5Configs(V5Len), 1, 1, 1, FALSE)

SpecV5 == InitV5 /\ [][Next]_vars

\* C21 as claimed: when candidates of two categories start at the same
\* position, the candidate of the later category is not in the output of
\* the v5 findMatches.
C21_SameStartPriority ==
  \A s \in DOMAIN scan :
    Done(s) =>
      LET pool == scan[s].allMatches
      IN \A i, j \in 1..Len(pool) :
           (pool[i].start = pool[j].start /\ pool[i].priority < pool[j].priority)
           => ~InOutput(pool[j], V5Resolve(scan[s].allMatches, scan[s].ignoreRanges))

\* C21 as amended: when two candidates of two categories that both survive
\* the ignore filter start at the same position, the candidate of the later
\* category is not in the output of the v5 findMatches.
C21_SameStartPriorityAmongSurvivors ==
  \A s \in DOMAIN scan :
    Done(s) =>
      LET pool == V5Filter(scan[s].allMatches, scan[s].ignoreRanges)
      IN \A i, j \in 1..Len(pool) :
           (pool[i].start = pool[j].start /\ pool[i].priority < pool[j].priority)
           => ~InOutput(pool[j], V5Resolve(scan[s].allMatches, scan[s].ignoreRanges))

C21_Witness ==
  \E s \in DOMAIN scan :
    /\ Done(s)
    /\ scan[s].ignoreRanges # <<>>
    /\ LET kept == V5Filter(scan[s].allMatches, scan[s].ignoreRanges)
       IN \E i, j \in 1..Len(kept) :
            /\ kept[i].start = kept[j].start /\ kept[i].priority < kept[j].priority
            /\ kept[i].end < kept[j].end
            /\ InOutput(kept[i], V5Resolve(scan[s].allMatches, scan[s].ignoreRanges))

(***************************************************************************)
(* Properties of the sort and of the sweep of findMatches.                 *)
(***************************************************************************)
\* C22: a sweep turn whose candidate overlaps the winner replaces the winner
\* by the candidate when the candidate is strictly better (non-wildcard,
\* then lower priority index, then longer span, then earlier start, then
\* earlier end) and keeps the winner otherwise, finalizing nothing; a turn
\* whose candidate does not overlap the winner finalizes the winner and
\* makes the candidate the winner.
C22_ReplacementRule ==
  [][\A s \in DOMAIN scan :
       (/\ scan[s].pc = "sweep"
        /\ scan[s].k <= Len(scan[s].filtered)
        /\ scan'[s].k = scan[s].k + 1) =>
         LET m == scan[s].filtered[scan[s].k]
         IN IF scan[s].winner = <<>>
            THEN scan'[s].winner = <<m>> /\ scan'[s].final = scan[s].final
            ELSE IF Overlaps(m, scan[s].winner[1])
            THEN /\ scan'[s].final = scan[s].final
                 /\ scan'[s].winner = IF StrictlyBetter(m, scan[s].winner[1]) THEN <<m>>
                                      ELSE scan[s].winner
            ELSE /\ scan'[s].final = Append(scan[s].final, scan[s].winner[1])
                 /\ scan'[s].winner = <<m>>]_vars

\* The second candidate has replaced the first, which it overlaps, and the
\* third, which overlaps neither, is next.
C22_Witness ==
  \E s \in DOMAIN scan :
    /\ scan[s].pc = "sweep"
    /\ scan[s].k = 3
    /\ Len(scan[s].filtered) = 3
    /\ Overlaps(scan[s].filtered[2], scan[s].filtered[1])
    /\ scan[s].filtered[2] # scan[s].filtered[1]
    /\ scan[s].winner = <<scan[s].filtered[2]>>
    /\ ~Overlaps(scan[s].filtered[3], scan[s].filtered[2])

\* C23 as claimed: the sorted candidates ascend, in lexicographic order of
\* their keys, by start, then non-wildcard
\* first, then lower priority index, then longer span, then earlier end.
C23_SortOrder ==
  \A s \in DOMAIN scan :
    scan[s].pc \in {"sweep", "done"} =>
      \A i, j \in 1..Len(scan[s].filtered) :
        i < j =>
          LET key(x) == <<x.start, IF x.isWildcard THEN 1 ELSE 0, x.priority,
                          0 - (x.end - x.start), x.end>>
              x == key(scan[s].filtered[i])
              y == key(scan[s].filtered[j])
          IN \/ x = y
             \/ \E p \in 1..Len(x) : x[p] < y[p] /\ \A q \in 1..(p - 1) : x[q] = y[q]

\* C23 as amended: the sorted candidates ascend, in lexicographic order of
\* their keys, by start, then longer span
\* first, then lower priority index; the wildcard flag plays no part.
C23_SortOrderLongerFirst ==
  \A s \in DOMAIN scan :
    scan[s].pc \in {"sweep", "done"} =>
      \A i, j \in 1..Len(scan[s].filtered) :
        i < j =>
          LET key(x) == <<x.start, 0 - (x.end - x.start), x.priority>>
              x == key(scan[s].filtered[i])
              y == key(scan[s].filtered[j])
          IN \/ x = y
             \/ \E p \in 1..Len(x) : x[p] < y[p] /\ \A q \in 1..(p - 1) : x[q] = y[q]

\* A longer candidate of the later category sorted ahead of a shorter one of
\* the earlier category with the same start.
C23_Witness ==
  \E s \in DOMAIN scan :
    /\ scan[s].pc = "sweep"
    /\ Len(scan[s].filtered) >= 2
    /\ scan[s].filtered[1].start = scan[s].filtered[2].start
    /\ scan[s].filtered[1].end > scan[s].filtered[2].end
    /\ scan[s].filtered[1].priority > scan[s].filtered[2].priority
    /\ scan[s].allMatches[1] = scan[s].filtered[2]

\* The orders in which n pooled candidates can arrive.
PoolOrders(n) == {f \in [1..n -> 1..n] : \A i, j \in 1..n : f[i] = f[j] => i = j}

\* C24: whatever the order in which the candidates of a call were pooled,
\* the filter, the early return, the sort and the sweep of findMatches
\* return the same list.
C24_PoolOrderIrrelevant ==
  \A s \in DOMAIN scan :
    Done(s) =>
      \A f \in PoolOrders(Len(scan[s].allMatches)) :
        LET all == [i \in 1..Len(scan[s].allMatches) |-> scan[s].allMatches[f[i]]]
            filtered == IgnoreFilter(all, scan[s].ignoreRanges)
        IN scan[s].result = IF filtered = <<>> THEN <<>>
                            ELSE OutputOf(SweepAll(SortMatches(filtered), 1, <<>>, <<>>))

\* Two candidates that the sort leaves in pool order, one wildcard and one
\* not, and a third candidate.
C24_Witness ==
  \E s \in DOMAIN scan :
    /\ Done(s)
    /\ Len(scan[s].allMatches) = 3
    /\ scan[s].result # <<>>
    /\ \E i, j \in 1..3 :
         /\ i # j
         /\ CompareMatches(scan[s].allMatches[i], scan[s].allMatches[j]) = 0
         /\ scan[s].allMatches[i].isWildcard /\ ~scan[s].allMatches[j].isWildcard

\* C25: the filter of findMatches (binary search over the ignore ranges
\* sorted by start) keeps exactly the candidates that the linear filter of
\* the earlier revision keeps, those that no ignore range overlaps.
C25_FilterEquivalence ==
  \A s \in DOMAIN scan :
    Collected(s) =>
      IgnoreFilter(scan[s].allMatches, scan[s].ignoreRanges)
        = V5Filter(scan[s].allMatches, scan[s].ignoreRanges)

\* After the sweep has examined sorted[1..k]: the winner, and the index of
\* the first candidate examined since a winner was last finalized.
RECURSIVE SweepGroup(_, _)
SweepGroup(sorted, k) ==
  IF k = 1 THEN [winner |-> sorted[1], from |-> 1]
  ELSE LET prev == SweepGroup(sorted, k - 1)
       IN IF ~Overlaps(sorted[k], prev.winner) THEN [winner |-> sorted[k], from |-> k]
          ELSE [winner |-> PickBetterOverlap(prev.winner, sorted[k]), from |-> prev.from]

\* C26: during the sweep the winner is one of the candidates examined since
\* a winner was last finalized and none of them is strictly better
\* (non-wildcard, lower priority index, longer span, earlier start, earlier
\* end); comparing them in any other order leaves the same winner; and on
\* the candidates of a call pickBetterOverlap returns one of its arguments,
\* the same one in either argument order, and is transitive.
C26_WinnerIsBest ==
  \A s \in DOMAIN scan :
    LET f == scan[s].filtered
        n == scan[s].k - 1
    IN (scan[s].pc = "sweep" /\ n >= 1) =>
         LET w == scan[s].winner[1]
             g == SweepGroup(f, n).from
             RECURSIVE Fold(_, _, _)
             Fold(order, i, best) ==
               IF i > n - g + 1 THEN best
               ELSE Fold(order, i + 1, PickBetterOverlap(best, f[g - 1 + order[i]]))
         IN /\ scan[s].winner # <<>>
            /\ \E j \in g..n : f[j] = w
            /\ \A j \in g..n : ~StrictlyBetter(f[j], w)
            /\ \A order \in PoolOrders(n - g + 1) :
                 Fold(order, 2, f[g - 1 + order[1]]) = w
            /\ \A a, b, c \in {f[j] : j \in 1..Len(f)} :
                 /\ PickBetterOverlap(a, b) \in {a, b}
                 /\ PickBetterOverlap(a, b) = PickBetterOverlap(b, a)
                 /\ (PickBetterOverlap(a, b) = a /\ PickBetterOverlap(b, c) = b)
                    => PickBetterOverlap(a, c) = a

\* Three candidates examined with none finalized, the last of them winning.
C26_Witness ==
  \E s \in DOMAIN scan :
    /\ scan[s].pc = "sweep"
    /\ scan[s].k = 4
    /\ scan[s].final = <<>>
    /\ scan[s].winner = <<scan[s].filtered[3]>>
    /\ scan[s].filtered[3] # scan[s].filtered[2]
    /\ scan[s].filtered[3] # scan[s].filtered[1]

(***************************************************************************)
(* Background service worker (src/extension/background.js): the context    *)
(* menu rebuild and the two add operations.  A chrome.* call is issued by  *)
(* the step that makes it; its effect and its callback are one later step, *)
(* and the calls in flight complete in any order.  The dictionary is kept  *)
(* as whether it is missing, well formed, or holds a category that is not  *)
(* an object (the options page stores an imported categories array as it   *)
(* is), and as the sets of words of its ignore list and of its category;   *)
(* the position insertAlphabetically gives a word is not kept.  A rebuild  *)
(* creates MenuItems items.                                                *)
(***************************************************************************)
\* The worker at load.  builds holds the locals of the rebuilds: where each
\* is, and the create, remove and second create calls of safeCreate whose
\* callbacks have not run yet.
Worker(dictionary) ==
  [loaded |-> TRUE,
   menuBuildInProgress |-> FALSE,
   menuBuildQueued |-> FALSE,
   builds |-> <<>>,
   storage |-> [dictionary |-> dictionary, ignoreList |-> {}, words |-> {}],
   adds |-> [op \in 1..AddOps |-> [phase |-> "idle", target |-> "ignore", dict |-> <<>>]],
   changes |-> 0,
   saves |-> MaxSaves,
   install |-> "none",
   fresh |-> TRUE]

\* function buildContextMenu() up to safeRemoveAll(...); fresh notes whether
\* a rebuild has read the storage since the last call of buildContextMenu.
BuildContextMenu(w) ==
  IF w.menuBuildInProgress
  THEN [w EXCEPT !.menuBuildQueued = TRUE, !.fresh = FALSE]
  ELSE [w EXCEPT !.menuBuildInProgress = TRUE, !.fresh = FALSE,
                 !.builds = Append(@, [phase |-> "removeAll", creates |-> 0,
                                       removes |-> 0, recreates |-> 0])]

\* menuBuildInProgress = false;
\* if (menuBuildQueued) { menuBuildQueued = false; buildContextMenu(); }
FinishBuild(w) ==
  IF w.menuBuildQueued
  THEN BuildContextMenu([w EXCEPT !.menuBuildInProgress = FALSE, !.menuBuildQueued = FALSE])
  ELSE [w EXCEPT !.menuBuildInProgress = FALSE]

\* chrome.storage.local.set(...) takes effect: the stored value changes and
\* a storage.onChanged event is on its way.
Stored(w, dictionary, ignoreList, words) ==
  [w EXCEPT !.storage = [dictionary |-> dictionary, ignoreList |-> ignoreList,
                         words |-> words],
            !.changes = @ + 1]

\* A rebuild none of whose callbacks is outstanding is over.
Settled(w) ==
  LET Outstanding(build) ==
        \/ build.phase \in {"removeAll", "get"}
        \/ build.creates + build.removes + build.recreates > 0
  IN [w EXCEPT !.builds = SelectSeq(@, Outstanding)]

\* chrome.runtime.onInstalled: the defaults are read for on install, and
\* buildContextMenu() is called.
OnInstalled(reason) ==
  /\ bg.install = "none"
  /\ bg' = BuildContextMenu([bg EXCEPT !.install = IF reason = "install" THEN "get" ELSE "done"])
  /\ UNCHANGED <<texts, config, handles, scan, results, scansLeft, parallel, page>>

\* The callback of the get of onInstalled: if (!result.dictionary) set(...).
InstallGetCallback ==
  /\ bg.install = "get"
  /\ bg' = [bg EXCEPT !.install = IF bg.storage.dictionary = "missing" THEN "set" ELSE "done"]
  /\ UNCHANGED <<texts, config, handles, scan, results, scansLeft, parallel, page>>

InstallSetDone ==
  /\ bg.install = "set"
  /\ bg' = Stored([bg EXCEPT !.install = "done"], "valid", {}, {})
  /\ UNCHANGED <<texts, config, handles, scan, results, scansLeft, parallel, page>>

\* The options page saves its dictionary (saveDictionary), well formed or
\* imported with a category that is not an object.
OptionsSave(dictionary) ==
  /\ bg.saves > 0
  /\ bg' = Stored([bg EXCEPT !.saves = @ - 1], dictionary,
                  bg.storage.ignoreList, bg.storage.words)
  /\ UNCHANGED <<texts, config, handles, scan, results, scansLeft, parallel, page>>

\* chrome.storage.onChanged listener, for a change of the dictionary.
OnChanged ==
  /\ bg.changes > 0
  /\ bg' = BuildContextMenu([bg EXCEPT !.changes = @ - 1])
  /\ UNCHANGED <<texts, config, handles, scan, results, scansLeft, parallel, page>>

\* The callback of chrome.contextMenus.removeAll in safeRemoveAll: with or
\* without lastError, cb() issues the storage get.
RemoveAllCallback(b) ==
  /\ bg.builds[b].phase = "removeAll"
  /\ bg' = [bg EXCEPT !.builds[b].phase = "get"]
  /\ UNCHANGED <<texts, config, handles, scan, results, scansLeft, parallel, page>>

\* The callback of the storage get of buildContextMenu.  With a category
\* that is not an object, safeCreate of the parent item has been called
\* when cat.name throws, and the rest of the callback does not run.
StorageGetCallback(b, lastError) ==
  /\ bg.builds[b].phase = "get"
  /\ LET read == [bg EXCEPT !.fresh = TRUE]
     IN bg' = IF lastError \/ bg.storage.dictionary = "missing"
              THEN FinishBuild(Settled([read EXCEPT !.builds[b].phase = "done"]))
              ELSE IF bg.storage.dictionary = "malformed"
              THEN [read EXCEPT !.builds[b].phase = "creating", !.builds[b].creates = 1]
              ELSE FinishBuild([read EXCEPT !.builds[b].phase = "creating",
                                            !.builds[b].creates = MenuItems])
  /\ UNCHANGED <<texts, config, handles, scan, results, scansLeft, parallel, page>>

\* The callback of chrome.contextMenus.create in safeCreate: on a duplicate
\* id error the item is removed and created again.
CreateCallback(b, duplicate) ==
  /\ bg.builds[b].creates > 0
  /\ bg' = Settled([bg EXCEPT !.builds[b].creates = @ - 1,
                              !.builds[b].removes = IF duplicate THEN @ + 1 ELSE @])
  /\ UNCHANGED <<texts, config, handles, scan, results, scansLeft, parallel, page>>

RemoveCallback(b) ==
  /\ bg.builds[b].removes > 0
  /\ bg' = [bg EXCEPT !.builds[b].removes = @ - 1, !.builds[b].recreates = @ + 1]
  /\ UNCHANGED <<texts, config, handles, scan, results, scansLeft, parallel, page>>

RecreateCallback(b) ==
  /\ bg.builds[b].recreates > 0
  /\ bg' = Settled([bg EXCEPT !.builds[b].recreates = @ - 1])
  /\ UNCHANGED <<texts, config, handles, scan, results, scansLeft, parallel, page>>

\* chrome.contextMenus.onClicked for the ignore item or a category item:
\* addWordToIgnoreList / addWordToCategory issue their storage get.  The
\* word of operation op is op.
ContextMenuClick(op, target) ==
  /\ bg.adds[op].phase = "idle"
  /\ bg' = [bg EXCEPT !.adds[op] = [phase |-> "get", target |-> target, dict |-> <<>>]]
  /\ UNCHANGED <<texts, config, handles, scan, results, scansLeft, parallel, page>>

\* The callback of the get of an add operation: the early returns, then the
\* word is put into the dictionary object that was read, and that object is
\* handed to chrome.storage.local.set.
AddGetCallback(op) ==
  LET add == bg.adds[op]
      st == bg.storage
      list == IF add.target = "ignore" THEN st.ignoreList ELSE st.words
      absent == \/ st.dictionary = "missing"
                \/ add.target = "category" /\ st.dictionary = "malformed"
  IN /\ add.phase = "get"
     /\ bg' = IF absent \/ op \in list
              THEN [bg EXCEPT !.adds[op].phase = "returned"]
              ELSE [bg EXCEPT !.adds[op].phase = "set",
                              !.adds[op].dict =
                                 <<[dictionary |-> st.dictionary,
                                    ignoreList |-> IF add.target = "ignore"
                                                   THEN st.ignoreList \cup {op}
                                                   ELSE st.ignoreList,
                                    words |-> IF add.target = "category"
                                              THEN st.words \cup {op} ELSE st.words]>>]
     /\ UNCHANGED <<texts, config, handles, scan, results, scansLeft, parallel, page>>

\* The set of an add operation takes effect and its callback runs:
\* notifyTab, the refresh message, buildContextMenu().
AddSetCallback(op) ==
  LET add == bg.adds[op]
  IN /\ add.phase = "set"
     /\ bg' = BuildContextMenu(
                Stored([bg EXCEPT !.adds[op] = [add EXCEPT !.phase = "added", !.dict = <<>>]],
                       add.dict[1].dictionary, add.dict[1].ignoreList, add.dict[1].words))
     /\ UNCHANGED <<texts, config, handles, scan, results, scansLeft, parallel, page>>

\* The steps the browser takes by itself: callbacks and events.
MenuCallbacks ==
  \/ InstallGetCallback
  \/ InstallSetDone
  \/ OnChanged
  \/ \E b \in DOMAIN bg.builds : RemoveAllCallback(b)
  \/ \E b \in DOMAIN bg.builds, lastError \in BOOLEAN : StorageGetCallback(b, lastError)
  \/ \E b \in DOMAIN bg.builds, duplicate \in BOOLEAN : CreateCallback(b, duplicate)
  \/ \E b \in DOMAIN bg.builds : RemoveCallback(b)
  \/ \E b \in DOMAIN bg.builds : RecreateCallback(b)
  \/ \E op \in 1..AddOps : AddGetCallback(op)
  \/ \E op \in 1..AddOps : AddSetCallback(op)

NextMenu ==
  \/ \E reason \in {"install", "update"} : OnInstalled(reason)
  \/ \E dictionary \in {"valid", "malformed"} : OptionsSave(dictionary)
  \/ \E op \in 1..AddOps, target \in {"ignore", "category"} : ContextMenuClick(op, target)
  \/ MenuCallbacks

InitMenu ==
  /\ bg \in {Worker(dictionary) : dictionary \in {"missing", "valid"}}
  /\ page = [loaded |-> FALSE]
  /\ texts = <<>>
  /\ config = [ignoreList |-> NoBuckets, categories |-> <<>>]
  /\ handles = <<>>
  /\ scan = <<>>
  /\ results = <<>>
  /\ scansLeft = 0
  /\ parallel = FALSE

SpecMenu == InitMenu /\ [][NextMenu]_vars

\* The browser delivers every callback and every event.
SpecMenuFair == SpecMenu /\ WF_vars(MenuCallbacks)

\* C27: at no time are two rebuild sequences in progress, the completion of
\* the item creations included; and a buildContextMenu call made while
\* menuBuildInProgress is set (by the storage.onChanged listener, by the
\* onInstalled listener or by the set callback of an add operation) starts
\* no rebuild and sets menuBuildQueued.
C27_RebuildsSerialized ==
  /\ [](Len(bg.builds) <= 1)
  /\ [][(/\ bg.menuBuildInProgress
          /\ \/ bg'.changes < bg.changes
             \/ bg.install = "none" /\ bg'.install # "none"
             \/ \E op \in 1..AddOps :
                  bg.adds[op].phase = "set" /\ bg'.adds[op].phase = "added")
        => (bg'.builds = bg.builds /\ bg'.menuBuildInProgress /\ bg'.menuBuildQueued)]_vars

\* C28: requests that arrive during a rebuild are followed, when it
\* finishes, by exactly one further rebuild (one more removeAll issued and
\* not yet called back); when no rebuild is in progress
\* the storage has been read since the last request; and
\* menuBuildInProgress always returns to false.
C28_QueuedRebuildRuns ==
  /\ [](bg.menuBuildQueued => bg.menuBuildInProgress)
  /\ [](~bg.menuBuildInProgress => bg.fresh)
  /\ [][(bg.menuBuildQueued /\ ~bg'.menuBuildQueued)
        => LET Starting(w) == {b \in DOMAIN w.builds : w.builds[b].phase = "removeAll"}
           IN /\ Cardinality(Starting(bg')) = Cardinality(Starting(bg)) + 1
              /\ bg'.menuBuildInProgress]_vars
  /\ (bg.menuBuildInProgress ~> ~bg.menuBuildInProgress)

\* C29: once no add operation has a storage call in flight, the word of every add operation
\* that reported it as added is in the stored dictionary, in the list it
\* was added to.
C29_AddedWordsStored ==
  (\A op \in 1..AddOps : bg.adds[op].phase \in {"idle", "returned", "added"}) =>
    \A op \in 1..AddOps :
      bg.adds[op].phase = "added" =>
        op \in (IF bg.adds[op].target = "ignore"
                THEN bg.storage.ignoreList ELSE bg.storage.words)

(***************************************************************************)
(* Content script (src/extension/content.js): globalEnabled and the paths  *)
(* that render highlights.  The page is not a modstatus route.  The DOM is *)
(* kept as whether it holds highlight spans; whether the text a path       *)
(* walks has a match is an input of the step (found).  What a storage get  *)
(* returns is an input of its callback.  inserter, refused, lastSet and    *)
(* wasOff record the path that inserted spans in the last step, the path   *)
(* whose highlightAll call returned at the test of globalEnabled in the    *)
(* last step, the path that last assigned globalEnabled, and whether a     *)
(* toggle message with enabled = false has been handled.                   *)
(***************************************************************************)
\* highlightAll / highlightTextNode without the test of globalEnabled.
HighlightAllUnguarded(p, found, by) ==
  IF p.compiledAll /\ found
  THEN [p EXCEPT !.spans = TRUE, !.inserter = by]
  ELSE p

\* function highlightAll(root) and function highlightTextNode(textNode):
\* if (!globalEnabled) return; if (!compiledAll) return; then
\* renderMatchesIntoNode for the text nodes that have matches.
HighlightAll(p, found, by) ==
  IF ~p.globalEnabled
  THEN [p EXCEPT !.refused = by]
  ELSE IF p.compiledAll /\ found
  THEN [p EXCEPT !.spans = TRUE, !.inserter = by]
  ELSE p

RemoveAllHighlights(p) == [p EXCEPT !.spans = FALSE]

\* startObserver(); startNavObserver();
StartObservers(p) == [p EXCEPT !.observer = TRUE, !.navObserver = TRUE]

\* stopObserver(); stopNavObserver(): observer.disconnect(),
\* pendingSet.clear(), clearInterval; the debounce timer is not cleared.
StopObservers(p) == [p EXCEPT !.observer = FALSE, !.pendingSet = FALSE, !.navObserver = FALSE]

\* The callback of the storage get of init().
InitCallback(lastError, enabled, dict) ==
  /\ page.init = "get"
  /\ LET p0 == [page EXCEPT !.init = "done", !.inserter = "none", !.refused = "none"]
         p1 == [p0 EXCEPT !.globalEnabled = enabled, !.lastSet = "init"]
         p2 == [p1 EXCEPT !.compiledAll = TRUE]
     IN \E found \in BOOLEAN :
          page' = IF lastError THEN p0
                  ELSE IF ~dict THEN p1
                  ELSE IF p2.globalEnabled
                  THEN StartObservers(HighlightAll(p2, found, "init"))
                  ELSE p2
  /\ UNCHANGED <<texts, config, handles, scan, results, scansLeft, parallel, bg>>

\* onMessage, case "toggle".
Toggle(enabled) ==
  /\ LET p1 == [page EXCEPT !.globalEnabled = enabled, !.lastSet = "toggle",
                            !.inserter = "none", !.refused = "none", !.wasOff = @ \/ ~enabled]
     IN \E found \in BOOLEAN :
          page' = IF enabled
                  THEN StartObservers(HighlightAll(RemoveAllHighlights(p1), found, "toggle"))
                  ELSE RemoveAllHighlights(StopObservers(p1))
  /\ UNCHANGED <<texts, config, handles, scan, results, scansLeft, parallel, bg>>

\* onMessage, case "refresh": the storage get is issued.
Refresh ==
  /\ page.refreshes < MaxRefresh
  /\ page' = [page EXCEPT !.refreshes = @ + 1, !.inserter = "none", !.refused = "none"]
  /\ UNCHANGED <<texts, config, handles, scan, results, scansLeft, parallel, bg>>

\* The callback of the storage get of a refresh.
RefreshCallback(enabled, dict) ==
  /\ page.refreshes > 0
  /\ LET p1 == [page EXCEPT !.refreshes = @ - 1, !.inserter = "none", !.refused = "none",
                            !.globalEnabled = enabled, !.lastSet = "refresh"]
         p2 == RemoveAllHighlights(IF dict THEN [p1 EXCEPT !.compiledAll = TRUE] ELSE p1)
     IN \E found \in BOOLEAN :
          page' = IF p2.globalEnabled
                  THEN StartObservers(HighlightAll(p2, found, "refresh"))
                  ELSE StopObservers(p2)
  /\ UNCHANGED <<texts, config, handles, scan, results, scansLeft, parallel, bg>>

\* The MutationObserver callback with added nodes that are not highlights:
\* pendingSet.add(node), and the debounce timer is set anew.
Mutation ==
  /\ page.observer
  /\ page' = [page EXCEPT !.pendingSet = TRUE, !.debounceTimer = TRUE, !.inserter = "none", !.refused = "none"]
  /\ UNCHANGED <<texts, config, handles, scan, results, scansLeft, parallel, bg>>

\* The debounce timer fires: the batch is highlighted and pendingSet
\* emptied.
DebounceFires(found) ==
  /\ page.debounceTimer
  /\ LET p1 == [page EXCEPT !.debounceTimer = FALSE, !.pendingSet = FALSE,
                            !.inserter = "none", !.refused = "none"]
     IN page' = IF page.pendingSet THEN HighlightAll(p1, found, "timer") ELSE p1
  /\ UNCHANGED <<texts, config, handles, scan, results, scansLeft, parallel, bg>>

\* The interval of startNavObserver fires; changed: the client name or the
\* content type differs from the last seen one.
NavPoll(changed, found) ==
  /\ page.navObserver
  /\ LET p1 == [page EXCEPT !.inserter = "none", !.refused = "none"]
     IN page' = IF ~changed THEN p1
                ELSE IF p1.globalEnabled /\ p1.compiledAll
                THEN HighlightAll(RemoveAllHighlights(p1), found, "poll")
                ELSE RemoveAllHighlights(p1)
  /\ UNCHANGED <<texts, config, handles, scan, results, scansLeft, parallel, bg>>

NextPage ==
  \/ \E lastError \in BOOLEAN, enabled \in BOOLEAN, dict \in BOOLEAN :
       InitCallback(lastError, enabled, dict)
  \/ \E enabled \in BOOLEAN : Toggle(enabled)
  \/ Refresh
  \/ \E enabled \in BOOLEAN, dict \in BOOLEAN : RefreshCallback(enabled, dict)
  \/ Mutation
  \/ \E found \in BOOLEAN : DebounceFires(found)
  \/ \E changed \in BOOLEAN, found \in BOOLEAN : NavPoll(changed, found)

InitPage ==
  /\ page = [loaded |-> TRUE,
            globalEnabled |-> TRUE,
            compiledAll |-> FALSE,
            observer |-> FALSE,
            navObserver |-> FALSE,
            debounceTimer |-> FALSE,
            pendingSet |-> FALSE,
            init |-> "get",
            refreshes |-> 0,
            spans |-> FALSE,
            inserter |-> "none",
            refused |-> "none",
            lastSet |-> "load",
            wasOff |-> FALSE]
  /\ bg = [loaded |-> FALSE]
  /\ texts = <<>>
  /\ config = [ignoreList |-> NoBuckets, categories |-> <<>>]
  /\ handles = <<>>
  /\ scan = <<>>
  /\ results = <<>>
  /\ scansLeft = 0
  /\ parallel = FALSE

SpecPage == InitPage /\ [][NextPage]_vars

\* C30 as stated: a step inserts highlight spans only with globalEnabled
\* true, and once a toggle message with enabled = false has been handled
\* only with globalEnabled last set by a toggle or a refresh.
C30_NoHighlightWhileDisabled ==
  page.inserter # "none" =>
    /\ page.globalEnabled
    /\ page.wasOff => page.lastSet \in {"toggle", "refresh"}

\* C30 amended: a step inserts highlight spans only with globalEnabled
\* true, whichever path it is (toggle, refresh, the storage callback of
\* init, the debounce timer, the navigation poll); the storage callback of
\* init is one of the paths that set globalEnabled to true again.
C30_NoHighlightWhileDisabledOrInit ==
  page.inserter # "none" => page.globalEnabled

\* After a toggle message with enabled = false, the debounce timer has
\* fired with a batch of added nodes while globalEnabled was false, and its
\* highlightAll call has inserted nothing.
C30_Witness ==
  /\ page.wasOff
  /\ page.refused = "timer"
  /\ page.compiledAll
  /\ ~page.globalEnabled
  /\ ~page.spans

====
